---- MODULE Spec2Model ----
(***************************************************************************)
(* Verification model of riskguard-finance: the expense scoring edge       *)
(* functions (two versions of compute-expense), the month-summary          *)
(* aggregator and the income-drop simulator.                               *)
(*                                                                         *)
(* Numbers: JSON numbers are sampled at integers.  The scorer divides by 4 *)
(* and by 3, so the running score is kept in units of 1/ScoreScale and     *)
(* Math.round is computed exactly on that fraction.                        *)
(***************************************************************************)
EXTENDS Integers, Sequences, FiniteSets, TLC

VARIABLES
    request,         \* the HTTP request sent to the scoring function
    response,        \* response of the scoring function with hard caps
    responseSimple,  \* response of the scoring function without hard caps
    env,             \* what the header and the backend give a report request
    profile,         \* the user's row of table profiles, Null when there is none
    expenses,        \* the user's rows of table expenses
    summary,         \* response of month-summary
    simulation,      \* response of simulate-drop-income
    projection,      \* response of projection-first-million
    scoreCall,       \* the running call of computeExpenseScore
    previewHook      \* state of the hook useComputePreview

vars == <<request, response, responseSimple, env, profile, expenses, summary, simulation,
          projection, scoreCall, previewHook>>

-----------------------------------------------------------------------------
(* JavaScript values as they arrive in a JSON body.  null and undefined     *)
(* are treated alike by every test of the code (!== undefined && !== null,  *)
(* ??), so both are Null.  Text is a sequence of one-character strings.     *)

Null == [type |-> "null"]
Num(n) == [type |-> "number", val |-> n]
Str(s) == [type |-> "string", val |-> s]
Bool(b) == [type |-> "boolean", val |-> b]

\* a ?? b
Coalesce(a, b) == IF a = Null THEN b ELSE a.val

\* No response has been produced yet.
Pending == [status |-> 0]

Min(a, b) == IF a < b THEN a ELSE b
Max(a, b) == IF a > b THEN a ELSE b

\* Math.round(n / d) for d > 0: the nearest integer, halves towards +infinity.
MathRound(n, d) == (2 * n + d) \div (2 * d)

IsSpace(c) == c = " "

RECURSIVE TrimStart(_)
TrimStart(s) ==
    IF s # <<>> /\ IsSpace(Head(s)) THEN TrimStart(Tail(s)) ELSE s

RECURSIVE TrimEnd(_)
TrimEnd(s) ==
    IF s # <<>> /\ IsSpace(s[Len(s)]) THEN TrimEnd(SubSeq(s, 1, Len(s) - 1)) ELSE s

\* String.prototype.trim
Trim(s) == TrimEnd(TrimStart(s))

-----------------------------------------------------------------------------
(* validateInput *)

Invalid(msg) == [valid |-> FALSE, error |-> msg]

IsNonNegNumber(v) == v.type = "number" /\ v.val >= 0

\* Mutant: the upper limit of the range is not checked.
IsNumberIn_NoUpper(v, lo, hi) == v.type = "number" /\ v.val >= lo

IsNumberIn(v, lo, hi) == v.type = "number" /\ v.val >= lo /\ v.val <= hi

validateInput(p) ==
    IF p.type # "object" THEN Invalid("payload")
    ELSE LET data == p.val IN
    IF data.name.type # "string" \/ Len(Trim(data.name.val)) = 0 THEN Invalid("name")
    ELSE IF ~IsNonNegNumber(data.amount) THEN Invalid("amount")
    ELSE IF data.contract_months_remaining # Null
            /\ ~IsNonNegNumber(data.contract_months_remaining)
        THEN Invalid("contract_months_remaining")
    ELSE IF data.notice_days # Null /\ ~IsNonNegNumber(data.notice_days)
        THEN Invalid("notice_days")
    ELSE IF data.cancellation_fee_pct # Null
            /\ ~IsNumberIn(data.cancellation_fee_pct, 0, 100)
        THEN Invalid("cancellation_fee_pct")
    ELSE IF data.substitutability # Null /\ ~IsNumberIn(data.substitutability, 0, 10)
        THEN Invalid("substitutability")
    ELSE IF data.has_legal_link # Null /\ data.has_legal_link.type # "boolean"
        THEN Invalid("has_legal_link")
    ELSE IF data.essential_obligation # Null /\ data.essential_obligation.type # "boolean"
        THEN Invalid("essential_obligation")
    ELSE IF data.override_rigidity # Null
            /\ (data.override_rigidity.type # "string"
                \/ data.override_rigidity.val \notin {"FIXO", "FLEXIVEL"})
        THEN Invalid("override_rigidity")
    ELSE IF data.override_reason # Null /\ data.override_reason.type # "string"
        THEN Invalid("override_reason")
    ELSE [valid |-> TRUE,
          data |-> [name |-> data.name.val,
                    amount |-> data.amount.val,
                    contract_months_remaining |-> Coalesce(data.contract_months_remaining, 0),
                    notice_days |-> Coalesce(data.notice_days, 0),
                    cancellation_fee_pct |-> Coalesce(data.cancellation_fee_pct, 0),
                    has_legal_link |-> Coalesce(data.has_legal_link, FALSE),
                    essential_obligation |-> Coalesce(data.essential_obligation, FALSE),
                    substitutability |-> Coalesce(data.substitutability, 5),
                    override_rigidity |-> data.override_rigidity,
                    override_reason |-> data.override_reason]]

-----------------------------------------------------------------------------
(* calculateCancelabilityScore. The penalties are in units of 1/ScoreScale. *)

ScoreScale == 4 * 3

\* Mutant: the penalty for the notice period is missing.
ScorePenalties_NoNotice(expense) ==
    LET contractMonths == expense.contract_months_remaining
        cancellationFee == expense.cancellation_fee_pct
        substitutability == expense.substitutability
    IN  (IF contractMonths > 0 THEN ScoreScale * Min(30, contractMonths * 2) ELSE 0)
      + (IF cancellationFee > 0 THEN Min(ScoreScale * 25, 3 * cancellationFee) ELSE 0)
      + (IF expense.has_legal_link THEN ScoreScale * 20 ELSE 0)
      + (IF expense.essential_obligation THEN ScoreScale * 15 ELSE 0)
      + ScoreScale * Max(0, (10 - substitutability) * 2)

\* Mutant: the penalty for low substitutability is missing.
ScorePenalties_NoSubstitutability(expense) ==
    LET contractMonths == expense.contract_months_remaining
        cancellationFee == expense.cancellation_fee_pct
        noticeDays == expense.notice_days
    IN  (IF contractMonths > 0 THEN ScoreScale * Min(30, contractMonths * 2) ELSE 0)
      + (IF cancellationFee > 0 THEN Min(ScoreScale * 25, 3 * cancellationFee) ELSE 0)
      + (IF expense.has_legal_link THEN ScoreScale * 20 ELSE 0)
      + (IF expense.essential_obligation THEN ScoreScale * 15 ELSE 0)
      + (IF noticeDays > 0 THEN Min(ScoreScale * 10, 4 * noticeDays) ELSE 0)

\* The running score after all six penalties, before rounding.
ScorePenalties(expense) ==
    LET contractMonths == expense.contract_months_remaining
        cancellationFee == expense.cancellation_fee_pct
        substitutability == expense.substitutability
        noticeDays == expense.notice_days
    IN  (IF contractMonths > 0 THEN ScoreScale * Min(30, contractMonths * 2) ELSE 0)
      + (IF cancellationFee > 0 THEN Min(ScoreScale * 25, 3 * cancellationFee) ELSE 0)
      + (IF expense.has_legal_link THEN ScoreScale * 20 ELSE 0)
      + (IF expense.essential_obligation THEN ScoreScale * 15 ELSE 0)
      + ScoreScale * Max(0, (10 - substitutability) * 2)
      + (IF noticeDays > 0 THEN Min(ScoreScale * 10, 4 * noticeDays) ELSE 0)

\* Mutant: the lower clamp is missing.
ClampScore_NoFloor(score) == Min(100, MathRound(score, ScoreScale))

\* Math.max(0, Math.min(100, Math.round(score)))
ClampScore(score) == Max(0, Min(100, MathRound(score, ScoreScale)))

\* Mutant: the legal-link cap is missing.
ApplyHardCaps_NoLegalCap(expense, baseScore) ==
    IF expense.contract_months_remaining > 0 THEN Min(baseScore, 60) ELSE baseScore

\* Mutant: the active-contract cap is missing.
ApplyHardCaps_NoContractCap(expense, baseScore) ==
    IF expense.has_legal_link THEN Min(baseScore, 50) ELSE baseScore

\* The hard caps on the clamped score.
ApplyHardCaps(expense, baseScore) ==
    LET afterLegal == IF expense.has_legal_link THEN Min(baseScore, 50) ELSE baseScore
    IN  IF expense.contract_months_remaining > 0 THEN Min(afterLegal, 60) ELSE afterLegal

\* The version with hard caps.
calculateCancelabilityScore(expense) ==
    ApplyHardCaps(expense, ClampScore(ScoreScale * 100 - ScorePenalties(expense)))

\* The version without hard caps.
calculateCancelabilityScoreSimple(expense) ==
    ClampScore(ScoreScale * 100 - ScorePenalties(expense))

-----------------------------------------------------------------------------
(* computeRigidityAndWarnings, version with hard caps. *)

WarnScoreException == "Score muito alto (>=90) sem vinculo legal ou contrato ativo"
WarnOverrideRejected == "Override para FLEXIVEL requer justificativa. Override ignorado."
WarnOverrideBlocked == "Override nao reduz risco por sinais fortes"
WarnHighFee == "Multa de cancelamento elevada (>= 50%)"
WarnLongContract == "Contrato de longo prazo (>= 12 meses restantes)"
WarnLowSubstitutability == "Baixa substituibilidade"
WarnCapLegal == "Score limitado a 50 devido a vinculo legal"
WarnCapContract == "Score limitado a 60 devido a contrato ativo"

\* Mutant: the notice period is not a hard signal.
hasHardSignals_NoNotice(expense) ==
    \/ expense.has_legal_link = TRUE
    \/ expense.contract_months_remaining > 0
    \/ expense.essential_obligation = TRUE

hasHardSignals(expense) ==
    \/ expense.has_legal_link = TRUE
    \/ expense.contract_months_remaining > 0
    \/ expense.essential_obligation = TRUE
    \/ expense.notice_days >= 30

hasStrongHardSignals(expense) ==
    \/ expense.has_legal_link = TRUE
    \/ expense.contract_months_remaining > 0

\* if (expense.override_rigidity): neither null/undefined nor the empty string.
Truthy(v) == v # Null /\ v.val # ""

\* Mutant: the reason is measured without trim().
TrimmedReason_NoTrim(expense) ==
    IF expense.override_reason = Null THEN <<>> ELSE expense.override_reason.val

\* expense.override_reason?.trim() ?? ''
TrimmedReason(expense) ==
    IF expense.override_reason = Null THEN <<>> ELSE Trim(expense.override_reason.val)

\* Mutant: STEP 1 already honours an override FIXO.
ComputedRigidityStep_OverrideAware(expense, score) ==
    IF expense.override_rigidity = Str("FIXO")
    THEN [rigidity |-> "FIXO", warnings |-> <<>>]
    ELSE IF hasHardSignals(expense)
    THEN IF score >= 90 /\ ~hasStrongHardSignals(expense)
         THEN [rigidity |-> "FLEXIVEL", warnings |-> <<WarnScoreException>>]
         ELSE [rigidity |-> "FIXO", warnings |-> <<>>]
    ELSE [rigidity |-> IF score < 55 THEN "FIXO" ELSE "FLEXIVEL", warnings |-> <<>>]

\* Mutant: the threshold of the score is <= 55 instead of < 55.
ComputedRigidityStep_Threshold(expense, score) ==
    IF hasHardSignals(expense)
    THEN IF score >= 90 /\ ~hasStrongHardSignals(expense)
         THEN [rigidity |-> "FLEXIVEL", warnings |-> <<WarnScoreException>>]
         ELSE [rigidity |-> "FIXO", warnings |-> <<>>]
    ELSE [rigidity |-> IF score <= 55 THEN "FIXO" ELSE "FLEXIVEL", warnings |-> <<>>]

\* STEP 1: the system's classification, without the override.
ComputedRigidityStep(expense, score) ==
    IF hasHardSignals(expense)
    THEN IF score >= 90 /\ ~hasStrongHardSignals(expense)
         THEN [rigidity |-> "FLEXIVEL", warnings |-> <<WarnScoreException>>]
         ELSE [rigidity |-> "FIXO", warnings |-> <<>>]
    ELSE [rigidity |-> IF score < 55 THEN "FIXO" ELSE "FLEXIVEL", warnings |-> <<>>]

\* Mutant: the override FIXO branch is missing.
RigidityEffectiveStep_FixoIgnored(expense, computedRigidity) ==
    IF Truthy(expense.override_rigidity) /\ expense.override_rigidity.val = "FLEXIVEL"
    THEN IF Len(TrimmedReason(expense)) < 8
         THEN [rigidity |-> computedRigidity, warnings |-> <<WarnOverrideRejected>>]
         ELSE IF hasHardSignals(expense)
         THEN [rigidity |-> "FIXO", warnings |-> <<WarnOverrideBlocked>>]
         ELSE [rigidity |-> "FLEXIVEL", warnings |-> <<>>]
    ELSE [rigidity |-> computedRigidity, warnings |-> <<>>]

\* STEP 2: the classification after the override.
RigidityEffectiveStep(expense, computedRigidity) ==
    IF Truthy(expense.override_rigidity)
    THEN IF expense.override_rigidity.val = "FLEXIVEL"
         THEN IF Len(TrimmedReason(expense)) < 8
              THEN [rigidity |-> computedRigidity, warnings |-> <<WarnOverrideRejected>>]
              ELSE IF hasHardSignals(expense)
              THEN [rigidity |-> "FIXO", warnings |-> <<WarnOverrideBlocked>>]
              ELSE [rigidity |-> "FLEXIVEL", warnings |-> <<>>]
         ELSE IF expense.override_rigidity.val = "FIXO"
         THEN [rigidity |-> "FIXO", warnings |-> <<>>]
         ELSE [rigidity |-> computedRigidity, warnings |-> <<>>]
    ELSE [rigidity |-> computedRigidity, warnings |-> <<>>]

\* Mutant: the contract warning is pushed before the fee warning.
ConditionWarnings_ContractFirst(expense) ==
       (IF expense.contract_months_remaining >= 12 THEN <<WarnLongContract>> ELSE <<>>)
    \o (IF expense.cancellation_fee_pct >= 50 THEN <<WarnHighFee>> ELSE <<>>)
    \o (IF expense.substitutability <= 2 THEN <<WarnLowSubstitutability>> ELSE <<>>)

\* The three contextual warnings shared by both versions.
ConditionWarnings(expense) ==
       (IF expense.cancellation_fee_pct >= 50 THEN <<WarnHighFee>> ELSE <<>>)
    \o (IF expense.contract_months_remaining >= 12 THEN <<WarnLongContract>> ELSE <<>>)
    \o (IF expense.substitutability <= 2 THEN <<WarnLowSubstitutability>> ELSE <<>>)

\* The score cap notification.
CapWarnings(expense, score) ==
    IF expense.has_legal_link /\ score = 50 THEN <<WarnCapLegal>>
    ELSE IF expense.contract_months_remaining > 0 /\ score = 60 /\ ~expense.has_legal_link
    THEN <<WarnCapContract>>
    ELSE <<>>

computeRigidityAndWarnings(expense, score) ==
    LET step1 == ComputedRigidityStep(expense, score)
        step2 == RigidityEffectiveStep(expense, step1.rigidity)
    IN  [cancelability_score |-> score,
         computed_rigidity |-> step1.rigidity,
         rigidity_effective |-> step2.rigidity,
         warnings |-> step1.warnings \o step2.warnings
                      \o ConditionWarnings(expense) \o CapWarnings(expense, score)]

-----------------------------------------------------------------------------
(* computeRigidityAndWarnings, version without hard caps. *)

WarnScoreConflict == "Score alto mas possui sinais de rigidez"
WarnAdjustedToFixo == "Rigidez ajustada para FIXO devido a sinais de rigidez presentes"
WarnReasonTooShort == "Override para FLEXIVEL requer justificativa com pelo menos 8 caracteres"
WarnOverrideNotRecommended == "Override nao recomendado: existem condicoes de risco"

\* const hasHardSignals of this version: no notice_days term
hasHardSignalsSimple(expense) ==
    \/ expense.has_legal_link
    \/ expense.contract_months_remaining > 0
    \/ expense.essential_obligation

hasRiskyConditions(expense) ==
    \/ expense.notice_days >= 30
    \/ expense.contract_months_remaining > 0
    \/ expense.has_legal_link

\* The classification from the score, adjusted for borderline scores.
BaseRigiditySimple(expense, score) ==
    IF hasHardSignalsSimple(expense) /\ score >= 55
    THEN IF score < 70
         THEN [rigidity |-> "FIXO", warnings |-> <<WarnScoreConflict, WarnAdjustedToFixo>>]
         ELSE [rigidity |-> "FLEXIVEL", warnings |-> <<WarnScoreConflict>>]
    ELSE [rigidity |-> IF score < 55 THEN "FIXO" ELSE "FLEXIVEL", warnings |-> <<>>]

\* The override, written over computedRigidity itself.
OverrideSimple(expense, computedRigidity) ==
    IF Truthy(expense.override_rigidity)
    THEN IF expense.override_rigidity.val = "FLEXIVEL"
         THEN IF Len(TrimmedReason(expense)) < 8
              THEN [rigidity |-> computedRigidity, warnings |-> <<WarnReasonTooShort>>]
              ELSE [rigidity |-> "FLEXIVEL",
                    warnings |-> IF hasRiskyConditions(expense)
                                 THEN <<WarnOverrideNotRecommended>> ELSE <<>>]
         ELSE IF expense.override_rigidity.val = "FIXO"
         THEN [rigidity |-> "FIXO", warnings |-> <<>>]
         ELSE [rigidity |-> computedRigidity, warnings |-> <<>>]
    ELSE [rigidity |-> computedRigidity, warnings |-> <<>>]

computeRigidityAndWarningsSimple(expense, score) ==
    LET base == BaseRigiditySimple(expense, score)
        over == OverrideSimple(expense, base.rigidity)
    IN  [cancelability_score |-> score,
         computed_rigidity |-> over.rigidity,
         rigidity_effective |-> over.rigidity,
         warnings |-> base.warnings \o over.warnings \o ConditionWarnings(expense)]

-----------------------------------------------------------------------------
(* The two serve handlers of the scoring function.  computed_at (the wall   *)
(* clock) is not part of the model.                                         *)

Unparseable == [type |-> "unparseable"]

ErrorResponse(status, msg) == [status |-> status, body |-> [error |-> msg]]

ScoreResponse(expense, result) ==
    [status |-> 200,
     body |-> [success |-> TRUE,
               data |-> [name |-> expense.name,
                         amount |-> expense.amount,
                         cancelability_score |-> result.cancelability_score,
                         computed_rigidity |-> result.computed_rigidity,
                         rigidity_effective |-> result.rigidity_effective,
                         warnings |-> result.warnings]]]

\* serve handler, version with hard caps
ServeComputeExpense(req) ==
    IF req.method = "OPTIONS" THEN [status |-> 200, body |-> Null]
    ELSE IF req.method # "POST" THEN ErrorResponse(405, "method")
    ELSE IF req.json = Unparseable THEN ErrorResponse(400, "json")
    ELSE LET validation == validateInput(req.json) IN
         IF ~validation.valid THEN ErrorResponse(400, validation.error)
         ELSE LET expense == validation.data
                  score == calculateCancelabilityScore(expense)
              IN  ScoreResponse(expense, computeRigidityAndWarnings(expense, score))

\* serve handler, version without hard caps
ServeComputeExpenseSimple(req) ==
    IF req.method = "OPTIONS" THEN [status |-> 200, body |-> Null]
    ELSE IF req.method # "POST" THEN ErrorResponse(405, "method")
    ELSE IF req.json = Unparseable THEN ErrorResponse(400, "json")
    ELSE LET validation == validateInput(req.json) IN
         IF ~validation.valid THEN ErrorResponse(400, validation.error)
         ELSE LET expense == validation.data
                  score == calculateCancelabilityScoreSimple(expense)
              IN  ScoreResponse(expense, computeRigidityAndWarningsSimple(expense, score))

-----------------------------------------------------------------------------
(* Exact fractions for the ratios of the reports.  Amounts are sampled at   *)
(* integers and a ratio is a numerator over a positive denominator; the     *)
(* rounding error of IEEE doubles is not part of the model.                 *)

Rat(n, d) == [num |-> n, den |-> d]
RatLt(a, b) == a.num * b.den < b.num * a.den
RatGe(a, b) == ~RatLt(a, b)
RatGt(a, b) == RatLt(b, a)
RatEq(a, b) == a.num * b.den = b.num * a.den

\* Math.round(r * k) / k
RoundTo(r, k) == Rat(MathRound(r.num * k, r.den), k)

\* What JSON.stringify makes of a division by zero or of NaN: null.
Infinity == [type |-> "Infinity"]
NaN == [type |-> "NaN"]

-----------------------------------------------------------------------------
(* month-summary *)

\* Mutant: every dependent lowers the limit, without the maximum of 4.
calculateAdaptiveLimit_UncappedDependents(profileData) ==
    LET base == IF profileData.income_is_variable THEN 35 - 5 ELSE 35
    IN  Max(25, Min(38, base - profileData.dependents))

calculateAdaptiveLimit(profileData) ==
    LET base == IF profileData.income_is_variable THEN 35 - 5 ELSE 35
        dependentsAdjustment == Min(profileData.dependents, 4)
    IN  Max(25, Min(38, base - dependentsAdjustment))

getFixedZone(fixedPct) ==
    IF RatGe(fixedPct, Rat(40, 1)) THEN [status |-> "VERMELHO", label |-> "Risco Alto"]
    ELSE IF RatGe(fixedPct, Rat(30, 1)) THEN [status |-> "AMARELO", label |-> "Atencao"]
    ELSE [status |-> "OK", label |-> "Saudavel"]

\* Mutant: the share of fixed costs adds nothing to the risk score.
calculateOverallRisk_NoFixedPct(fixedPct, rigidityIndex, dscr, runwayMonths, aboveAdaptiveLimit) ==
    LET riskScore ==
              (IF RatGe(rigidityIndex, Rat(6, 10)) THEN 2
               ELSE IF RatGe(rigidityIndex, Rat(45, 100)) THEN 1 ELSE 0)
            + (IF dscr # Null
               THEN (IF RatLt(dscr, Rat(1, 1)) THEN 3
                     ELSE IF RatLt(dscr, Rat(15, 10)) THEN 1 ELSE 0)
               ELSE 0)
            + (IF runwayMonths # Null
               THEN (IF RatLt(runwayMonths, Rat(3, 1)) THEN 2
                     ELSE IF RatLt(runwayMonths, Rat(6, 1)) THEN 1 ELSE 0)
               ELSE 0)
            + (IF aboveAdaptiveLimit THEN 1 ELSE 0)
    IN  IF riskScore >= 5 THEN [status |-> "VERMELHO", label |-> "Risco Critico"]
        ELSE IF riskScore >= 2 THEN [status |-> "AMARELO", label |-> "Atencao Necessaria"]
        ELSE [status |-> "OK", label |-> "Situacao Saudavel"]

calculateOverallRisk(fixedPct, rigidityIndex, dscr, runwayMonths, aboveAdaptiveLimit) ==
    LET riskScore ==
              (IF RatGe(fixedPct, Rat(40, 1)) THEN 3
               ELSE IF RatGe(fixedPct, Rat(30, 1)) THEN 1 ELSE 0)
            + (IF RatGe(rigidityIndex, Rat(6, 10)) THEN 2
               ELSE IF RatGe(rigidityIndex, Rat(45, 100)) THEN 1 ELSE 0)
            + (IF dscr # Null
               THEN (IF RatLt(dscr, Rat(1, 1)) THEN 3
                     ELSE IF RatLt(dscr, Rat(15, 10)) THEN 1 ELSE 0)
               ELSE 0)
            + (IF runwayMonths # Null
               THEN (IF RatLt(runwayMonths, Rat(3, 1)) THEN 2
                     ELSE IF RatLt(runwayMonths, Rat(6, 1)) THEN 1 ELSE 0)
               ELSE 0)
            + (IF aboveAdaptiveLimit THEN 1 ELSE 0)
    IN  IF riskScore >= 5 THEN [status |-> "VERMELHO", label |-> "Risco Critico"]
        ELSE IF riskScore >= 2 THEN [status |-> "AMARELO", label |-> "Atencao Necessaria"]
        ELSE [status |-> "OK", label |-> "Situacao Saudavel"]

\* A warning of a report; n is the count the text starts with, 0 when it has none.
Warning(text, n) == [text |-> text, n |-> n]

WarnUnclassified == "despesa(s) sem classificacao calculada - tratadas como FIXO por seguranca"
WarnNoScore == "despesa(s) sem score de cancelabilidade"
WarnDscrCritical == "DSCR abaixo de 1"
WarnDscrTight == "DSCR entre 1 e 1.5"
WarnRunwayFallback == "Runway calculado com fallback (total essenciais)"
WarnRunwayLow == "Reserva de emergencia cobre apenas poucos meses"
WarnAboveAdaptiveLimit == "Custos fixos acima do limite adaptativo"
WarnZoneRed == "Zona VERMELHA"
WarnZoneYellow == "Zona AMARELA"
WarnHighRigidity == "despesa(s) com baixo score de cancelabilidade (<40)"
GrowthCrossed40 == "ALERTA: Custos fixos cruzaram 40% da renda"
GrowthCrossed30 == "ATENCAO: Custos fixos cruzaram 30% da renda"
GrowthLargestFixed == "Maior despesa fixa representa mais de 15% da renda"

\* expense.amount ?? 0
AmountOf(expense) == Coalesce(expense.amount, 0)

IsUnclassified(expense) == expense.computed_rigidity = Null

\* Mutant: without a stored classification the score decides.
IsFixed_InferFromScore(expense) ==
    IF expense.computed_rigidity # Null
    THEN expense.computed_rigidity.val = "FIXO"
    ELSE Coalesce(expense.cancelability_score, 100) < 55

\* isFixed of the aggregation loop: the stored classification, FIXO when there is none.
IsFixed(expense) ==
    IF expense.computed_rigidity # Null
    THEN expense.computed_rigidity.val = "FIXO"
    ELSE TRUE

IsFlexible(expense) == ~IsFixed(expense)

HasNoScore(expense) == expense.cancelability_score = Null

IsEssential(expense) == expense.intention = "ESSENCIAL"

IsFixedEssential(expense) == IsEssential(expense) /\ IsFixed(expense)

HasLowScore(expense) ==
    expense.cancelability_score # Null /\ expense.cancelability_score.val < 40

RECURSIVE SumAmounts(_)
SumAmounts(list) ==
    IF list = <<>> THEN 0 ELSE AmountOf(Head(list)) + SumAmounts(Tail(list))

\* The entry pushed on fixedExpensesList.
TopFixedEntry(expense, incomeFloor) ==
    [id |-> expense.id,
     amount |-> AmountOf(expense),
     cancelability_score |-> expense.cancelability_score,
     impact_pct |-> IF incomeFloor > 0
                    THEN RoundTo(Rat(AmountOf(expense) * 100, incomeFloor), 10)
                    ELSE Null]

RECURSIVE InsertByAmount(_, _)
InsertByAmount(x, sorted) ==
    IF sorted = <<>> THEN <<x>>
    ELSE IF Head(sorted).amount >= x.amount
         THEN <<Head(sorted)>> \o InsertByAmount(x, Tail(sorted))
         ELSE <<x>> \o sorted

\* Mutant: the list is left in insertion order.
SortByAmountDesc_Unsorted(list) == list

\* Array.prototype.sort((a, b) => b.amount - a.amount): stable, largest first.
RECURSIVE SortByAmountDesc(_)
SortByAmountDesc(list) ==
    IF list = <<>> THEN <<>>
    ELSE InsertByAmount(list[Len(list)], SortByAmountDesc(SubSeq(list, 1, Len(list) - 1)))

\* slice(0, 5)
TopFive(list) == SubSeq(list, 1, Min(5, Len(list)))

ByIntention(expenseList) ==
    [i \in {expenseList[k].intention : k \in 1..Len(expenseList)} |->
        LET ofIntention(e) == e.intention = i
            mine == SelectSeq(expenseList, ofIntention)
        IN  [total |-> SumAmounts(mine),
             fixed |-> SumAmounts(SelectSeq(mine, IsFixed)),
             flexible |-> SumAmounts(SelectSeq(mine, IsFlexible))]]

\* Mutant: instead of the guard, the divisor is kept at 1 or more.
FixedPct_DivisorAtLeastOne(fixedTotal, incomeFloor) ==
    Rat(fixedTotal * 100, Max(incomeFloor, 1))

\* const fixedPct
FixedPct(fixedTotal, incomeFloor) ==
    IF incomeFloor > 0 THEN Rat(fixedTotal * 100, incomeFloor) ELSE Rat(0, 1)

\* const rigidityIndex
RigidityIndex(fixedTotal, debtService, incomeFloor) ==
    IF incomeFloor > 0 THEN Rat(fixedTotal + debtService, incomeFloor) ELSE Rat(0, 1)

\* let dscr
Dscr(incomeFloor, essentialsTotal, debtService) ==
    IF debtService > 0 THEN Rat(incomeFloor - essentialsTotal, debtService) ELSE Null

\* Mutant: a DSCR of exactly 1.5 is still tight.
DscrStatus_TightInclusive(dscr) ==
    IF dscr = Null THEN "Sem divida"
    ELSE IF RatLt(dscr, Rat(1, 1)) THEN "Critico"
    ELSE IF ~RatGt(dscr, Rat(15, 10)) THEN "Apertado"
    ELSE "Saudavel"

\* let dscrStatus
DscrStatus(dscr) ==
    IF dscr = Null THEN "Sem divida"
    ELSE IF RatLt(dscr, Rat(1, 1)) THEN "Critico"
    ELSE IF RatLt(dscr, Rat(15, 10)) THEN "Apertado"
    ELSE "Saudavel"

\* Mutant: the fallback to the essentials total is never taken.
UsedRunwayFallback_Never(fixedEssentialTotal, essentialsTotal) == FALSE

\* let usedRunwayFallback
UsedRunwayFallback(fixedEssentialTotal, essentialsTotal) ==
    fixedEssentialTotal = 0 /\ essentialsTotal > 0

\* const runwayMonths
RunwayMonths(emergencyReserve, runwayBase) ==
    IF runwayBase > 0 THEN Rat(emergencyReserve, runwayBase) ELSE Null

\* The body of the handler after both reads succeeded.
MonthSummary(profileData, expenseList) ==
    LET incomeFloor == profileData.income_floor
        debtService == profileData.debt_service
        emergencyReserve == profileData.emergency_reserve
        totalExpenses == SumAmounts(expenseList)
        fixedTotal == SumAmounts(SelectSeq(expenseList, IsFixed))
        flexibleTotal == SumAmounts(SelectSeq(expenseList, IsFlexible))
        essentialsTotal == SumAmounts(SelectSeq(expenseList, IsEssential))
        fixedEssentialTotal == SumAmounts(SelectSeq(expenseList, IsFixedEssential))
        unclassifiedCount == Len(SelectSeq(expenseList, IsUnclassified))
        noScoreCount == Len(SelectSeq(expenseList, HasNoScore))
        fixedOnes == SelectSeq(expenseList, IsFixed)
        fixedExpensesList == [k \in 1..Len(fixedOnes) |-> TopFixedEntry(fixedOnes[k], incomeFloor)]
        topFixedExpenses == TopFive(SortByAmountDesc(fixedExpensesList))
        fixedPct == FixedPct(fixedTotal, incomeFloor)
        rigidityIndex == RigidityIndex(fixedTotal, debtService, incomeFloor)
        dscr == Dscr(incomeFloor, essentialsTotal, debtService)
        dscrStatus == DscrStatus(dscr)
        usedRunwayFallback == UsedRunwayFallback(fixedEssentialTotal, essentialsTotal)
        runwayBase == IF usedRunwayFallback THEN essentialsTotal ELSE fixedEssentialTotal
        runwayMonths == RunwayMonths(emergencyReserve, runwayBase)
        adaptiveLimitPct == calculateAdaptiveLimit(profileData)
        aboveAdaptiveLimit == RatGt(fixedPct, Rat(adaptiveLimitPct, 1))
        fixedZone == getFixedZone(fixedPct)
        overallRisk ==
            calculateOverallRisk(fixedPct, rigidityIndex, dscr, runwayMonths, aboveAdaptiveLimit)
        highRigidityCount == Len(SelectSeq(expenseList, HasLowScore))
        warnings ==
               (IF unclassifiedCount > 0
                THEN <<Warning(WarnUnclassified, unclassifiedCount)>> ELSE <<>>)
            \o (IF noScoreCount > 0 THEN <<Warning(WarnNoScore, noScoreCount)>> ELSE <<>>)
            \o (IF dscrStatus = "Critico" THEN <<Warning(WarnDscrCritical, 0)>>
                ELSE IF dscrStatus = "Apertado" THEN <<Warning(WarnDscrTight, 0)>>
                ELSE <<>>)
            \o (IF usedRunwayFallback THEN <<Warning(WarnRunwayFallback, 0)>> ELSE <<>>)
            \o (IF runwayMonths # Null /\ RatLt(runwayMonths, Rat(3, 1))
                THEN <<Warning(WarnRunwayLow, 0)>> ELSE <<>>)
            \o (IF aboveAdaptiveLimit THEN <<Warning(WarnAboveAdaptiveLimit, 0)>> ELSE <<>>)
            \o (IF fixedZone.status = "VERMELHO" THEN <<Warning(WarnZoneRed, 0)>>
                ELSE IF fixedZone.status = "AMARELO" THEN <<Warning(WarnZoneYellow, 0)>>
                ELSE <<>>)
            \o (IF highRigidityCount > 0
                THEN <<Warning(WarnHighRigidity, highRigidityCount)>> ELSE <<>>)
        fixedGrowthWarnings ==
               (IF RatGe(fixedPct, Rat(40, 1)) THEN <<GrowthCrossed40>>
                ELSE IF RatGe(fixedPct, Rat(30, 1)) THEN <<GrowthCrossed30>>
                ELSE <<>>)
            \o (IF Len(topFixedExpenses) > 0
                   /\ topFixedExpenses[1].amount * 100 > incomeFloor * 15
                THEN <<GrowthLargestFixed>> ELSE <<>>)
    IN  [income_floor |-> incomeFloor,
         total_expenses |-> totalExpenses,
         fixed_total |-> fixedTotal,
         flexible_total |-> flexibleTotal,
         fixed_pct |-> RoundTo(fixedPct, 10),
         rigidity_index |-> RoundTo(rigidityIndex, 1000),
         dscr |-> IF dscr # Null THEN RoundTo(dscr, 100) ELSE Null,
         dscr_status |-> dscrStatus,
         runway_months |-> IF runwayMonths # Null THEN RoundTo(runwayMonths, 10) ELSE Null,
         adaptive_limit_pct |-> adaptiveLimitPct,
         above_adaptive_limit |-> aboveAdaptiveLimit,
         fixed_zone |-> fixedZone,
         overall_risk |-> overallRisk,
         by_intention |-> ByIntention(expenseList),
         top_fixed_expenses |-> topFixedExpenses,
         fixed_growth_warnings |-> fixedGrowthWarnings,
         warnings |-> warnings]

\* const profileData: the columns of the profile row with their defaults.
ProfileData(prof) ==
    [income_floor |-> Coalesce(prof.income_floor, 0),
     income_is_variable |-> Coalesce(prof.income_is_variable, FALSE),
     dependents |-> Coalesce(prof.dependents, 0),
     emergency_reserve |-> Coalesce(prof.emergency_reserve, 0),
     debt_service |-> Coalesce(prof.debt_service, 0)]

\* serve handler of month-summary
ServeMonthSummary(e, prof, expenseList) ==
    IF e.method = "OPTIONS" THEN [status |-> 200, body |-> Null]
    ELSE IF ~e.bearer THEN ErrorResponse(401, "Nao autorizado")
    ELSE IF ~e.tokenValid THEN ErrorResponse(401, "Token invalido")
    ELSE IF e.profileError THEN ErrorResponse(500, "Erro ao buscar perfil")
    ELSE IF prof = Null THEN ErrorResponse(404, "Perfil nao encontrado")
    ELSE IF e.expensesError THEN ErrorResponse(500, "Erro ao buscar despesas")
    ELSE [status |-> 200,
          body |-> [success |-> TRUE, data |-> MonthSummary(ProfileData(prof), expenseList)]]

-----------------------------------------------------------------------------
(* simulate-drop-income *)

\* isFixed of the simulation: the stored override first, then the stored
\* classification, then the score.
SimIsFixed(expense) ==
    LET rigidityEffective ==
            IF expense.override_rigidity # Null
            THEN expense.override_rigidity ELSE expense.computed_rigidity
    IN  \/ (rigidityEffective # Null /\ rigidityEffective.val = "FIXO")
        \/ (rigidityEffective = Null /\ Coalesce(expense.cancelability_score, 100) < 55)

SimFixedTotal(expenseList) == SumAmounts(SelectSeq(expenseList, SimIsFixed))

\* parseFloat(url.searchParams.get('drop_pct') ?? '0.2')
ParseDropPct(param) == IF param = Null THEN Rat(2, 10) ELSE param

\* Mutant: only the upper limit is checked.
DropPctOutOfRange_NoLower(dropPct) == dropPct # NaN /\ dropPct.num > dropPct.den

\* dropPct < 0 || dropPct > 1: false for NaN.
DropPctOutOfRange(dropPct) ==
    dropPct # NaN /\ (dropPct.num < 0 \/ dropPct.num > dropPct.den)

\* The result of the simulation for a drop that is a number.
Simulation(incomeFloor, fixedTotal, dropPct) ==
    LET newIncome == Rat(incomeFloor * (dropPct.den - dropPct.num), dropPct.den)
        deficit == Rat(fixedTotal * newIncome.den - newIncome.num, newIncome.den)
    IN  [income_floor |-> incomeFloor,
         drop_pct |-> dropPct,
         new_income |-> RoundTo(newIncome, 100),
         fixed_total |-> RoundTo(Rat(fixedTotal, 1), 100),
         deficit |-> RoundTo(deficit, 100),
         breaks |-> deficit.num > 0,
         coverage_months |->
            IF newIncome.num > 0
            THEN (IF fixedTotal = 0 THEN Infinity
                  ELSE Rat(MathRound(newIncome.num * 10, newIncome.den * fixedTotal), 10))
            ELSE Rat(0, 1)]

\* The result when drop_pct does not parse: every product is NaN, every
\* comparison with NaN is false.
SimulationNaN(incomeFloor, fixedTotal) ==
    [income_floor |-> incomeFloor,
     drop_pct |-> NaN,
     new_income |-> NaN,
     fixed_total |-> RoundTo(Rat(fixedTotal, 1), 100),
     deficit |-> NaN,
     breaks |-> FALSE,
     coverage_months |-> Rat(0, 1)]

\* serve handler of simulate-drop-income
ServeSimulateDropIncome(e, param, prof, expenseList) ==
    LET dropPct == ParseDropPct(param) IN
    IF e.method = "OPTIONS" THEN [status |-> 200, body |-> Null]
    ELSE IF ~e.bearer THEN ErrorResponse(401, "Nao autorizado")
    ELSE IF DropPctOutOfRange(dropPct)
        THEN ErrorResponse(400, "drop_pct deve estar entre 0 e 1")
    ELSE IF ~e.tokenValid THEN ErrorResponse(401, "Token invalido")
    ELSE IF e.profileError \/ prof = Null THEN ErrorResponse(404, "Perfil nao encontrado")
    ELSE IF e.expensesError THEN ErrorResponse(500, "Erro ao buscar despesas")
    ELSE LET fixedTotal == SimFixedTotal(expenseList)
             incomeFloor == Coalesce(prof.income_floor, 0)
         IN  [status |-> 200,
              body |-> [success |-> TRUE,
                        data |-> IF dropPct = NaN
                                 THEN SimulationNaN(incomeFloor, fixedTotal)
                                 ELSE Simulation(incomeFloor, fixedTotal, dropPct)]]

-----------------------------------------------------------------------------
(* The requests the scoring function is exercised with. *)

\* Spaces that may surround an override reason, on each side.
MaxPad == 1

Spaces(n) == [i \in 1..n |-> " "]
Letters(n) == [i \in 1..n |-> "a"]

Obj(fields) == [type |-> "object", val |-> fields]

ContractSamples == {0, 1, 12, 20}
NoticeSamples == {0, 2, 29, 30, 45}
FeeSamples == {0, 2, 50, 100}
SubstitutabilitySamples == {0, 2, 5, 10}
OverrideSamples == {Null, Str("FIXO"), Str("FLEXIVEL")}
ReasonLengths == {0, 7, 8}
ReasonSamples ==
    {Null} \cup {Str(Spaces(p) \o Letters(k) \o Spaces(p)) : p \in 0..MaxPad, k \in ReasonLengths}

\* Every field present and valid.
FullPayloads ==
    [name : {Str(<<"a">>)},
     amount : {Num(1000)},
     contract_months_remaining : {Num(n) : n \in ContractSamples},
     notice_days : {Num(n) : n \in NoticeSamples},
     cancellation_fee_pct : {Num(n) : n \in FeeSamples},
     has_legal_link : {Bool(FALSE), Bool(TRUE)},
     essential_obligation : {Bool(FALSE), Bool(TRUE)},
     substitutability : {Num(n) : n \in SubstitutabilitySamples},
     override_rigidity : OverrideSamples,
     override_reason : ReasonSamples]

BasePayload ==
    [name |-> Str(<<"a">>), amount |-> Num(1000),
     contract_months_remaining |-> Num(12), notice_days |-> Num(30),
     cancellation_fee_pct |-> Num(50), has_legal_link |-> Bool(TRUE),
     essential_obligation |-> Bool(TRUE), substitutability |-> Num(2),
     override_rigidity |-> Str("FLEXIVEL"), override_reason |-> Str(Letters(8))]

\* The worked scenario of the scoring rules: a legally linked one-year contract.
ScenarioPayload ==
    [name |-> Str(<<"a">>), amount |-> Num(1000),
     contract_months_remaining |-> Num(12), notice_days |-> Num(0),
     cancellation_fee_pct |-> Num(20), has_legal_link |-> Bool(TRUE),
     essential_obligation |-> Bool(FALSE), substitutability |-> Num(5),
     override_rigidity |-> Null, override_reason |-> Null]

\* Valid payloads with optional fields left out.
SparsePayloads ==
    { [BasePayload EXCEPT !.contract_months_remaining = Null],
      [BasePayload EXCEPT !.notice_days = Null],
      [BasePayload EXCEPT !.cancellation_fee_pct = Null],
      [BasePayload EXCEPT !.has_legal_link = Null],
      [BasePayload EXCEPT !.essential_obligation = Null],
      [BasePayload EXCEPT !.substitutability = Null],
      [BasePayload EXCEPT !.amount = Num(0)],
      [name |-> Str(<<" ", "a", " ">>), amount |-> Num(1000),
       contract_months_remaining |-> Null, notice_days |-> Null,
       cancellation_fee_pct |-> Null, has_legal_link |-> Null,
       essential_obligation |-> Null, substitutability |-> Null,
       override_rigidity |-> Null, override_reason |-> Null] }

\* Payloads that break one validation rule each.
InvalidPayloads ==
    { [BasePayload EXCEPT !.name = Null],
      [BasePayload EXCEPT !.name = Str(<<>>)],
      [BasePayload EXCEPT !.name = Str(<<" ", " ">>)],
      [BasePayload EXCEPT !.name = Num(1)],
      [BasePayload EXCEPT !.amount = Null],
      [BasePayload EXCEPT !.amount = Str(<<"1">>)],
      [BasePayload EXCEPT !.amount = Num(-1)],
      [BasePayload EXCEPT !.contract_months_remaining = Num(-1)],
      [BasePayload EXCEPT !.contract_months_remaining = Str(<<"1">>)],
      [BasePayload EXCEPT !.notice_days = Num(-1)],
      [BasePayload EXCEPT !.cancellation_fee_pct = Num(-1)],
      [BasePayload EXCEPT !.cancellation_fee_pct = Num(101)],
      [BasePayload EXCEPT !.substitutability = Num(-1)],
      [BasePayload EXCEPT !.substitutability = Num(11)],
      [BasePayload EXCEPT !.has_legal_link = Str(<<"s">>)],
      [BasePayload EXCEPT !.essential_obligation = Num(1)],
      [BasePayload EXCEPT !.override_rigidity = Str("OUTRO")],
      [BasePayload EXCEPT !.override_rigidity = Num(1)],
      [BasePayload EXCEPT !.override_reason = Num(1)] }

Requests ==
    {[method |-> "POST", json |-> Obj(p)] :
        p \in FullPayloads \cup {ScenarioPayload} \cup SparsePayloads \cup InvalidPayloads}
    \cup {[method |-> "POST", json |-> j] : j \in {Unparseable, Null, Num(1)}}
    \cup {[method |-> m, json |-> Obj(BasePayload)] : m \in {"OPTIONS", "GET"}}

-----------------------------------------------------------------------------
(* Scoring: one request, answered by each version of the function. *)

\* computeExpenseScore is not running.
IdleCall == [pc |-> "idle"]

\* No projection was asked for, no score is being computed, no form is open.
ClientIdle ==
    /\ projection = Pending
    /\ scoreCall = IdleCall
    /\ previewHook = Null

\* A report request that reaches the handler's computation.
OkEnv ==
    [method |-> "GET", bearer |-> TRUE, tokenValid |-> TRUE,
     profileError |-> FALSE, expensesError |-> FALSE]

Init ==
    /\ request \in Requests
    /\ response = Pending
    /\ responseSimple = Pending
    /\ env = OkEnv
    /\ profile = Null
    /\ expenses = <<>>
    /\ summary = Pending
    /\ simulation = Pending
    /\ ClientIdle

ComputeExpense ==
    /\ response = Pending
    /\ response' = ServeComputeExpense(request)
    /\ UNCHANGED <<request, responseSimple, env, profile, expenses, summary, simulation,
                 projection, scoreCall, previewHook>>

ComputeExpenseSimple ==
    /\ responseSimple = Pending
    /\ responseSimple' = ServeComputeExpenseSimple(request)
    /\ UNCHANGED <<request, response, env, profile, expenses, summary, simulation,
                 projection, scoreCall, previewHook>>

Next == ComputeExpense \/ ComputeExpenseSimple

Spec == Init /\ [][Next]_vars

-----------------------------------------------------------------------------
(* Reports: one profile and one set of stored expenses, read by             *)
(* month-summary and by simulate-drop-income.                               *)

\* Longest list of stored expenses.
MaxExpenses == 2

\* Requests that end before the computation.
FailingEnvs ==
    { [OkEnv EXCEPT !.method = "OPTIONS"],
      [OkEnv EXCEPT !.bearer = FALSE],
      [OkEnv EXCEPT !.tokenValid = FALSE],
      [OkEnv EXCEPT !.profileError = TRUE],
      [OkEnv EXCEPT !.expensesError = TRUE] }

ProfileRow(income, variable, dependents, reserve, debt) ==
    [income_floor |-> income, income_is_variable |-> variable, dependents |-> dependents,
     emergency_reserve |-> reserve, debt_service |-> debt]

ProfileSamples ==
    { ProfileRow(Num(10), Bool(FALSE), Num(0), Num(18), Num(0)),
      ProfileRow(Num(10), Bool(TRUE), Num(0), Num(9), Num(4)),
      ProfileRow(Num(10), Bool(FALSE), Num(2), Num(10), Num(7)),
      ProfileRow(Num(9), Bool(FALSE), Num(4), Num(1), Num(4)),
      ProfileRow(Num(0), Bool(TRUE), Num(5), Num(0), Num(2)),
      ProfileRow(Null, Null, Null, Null, Null) }

\* Stored classifications: computed_rigidity, cancelability_score and
\* override_rigidity as the scoring function stores them, as the column
\* defaults leave them, and as a direct write can leave them.
Classification(rigidity, score, override) ==
    [computed_rigidity |-> rigidity, cancelability_score |-> score,
     override_rigidity |-> override]

ClassificationSamples ==
    { Classification(Null, Null, Null),
      Classification(Null, Num(30), Null),
      Classification(Null, Num(60), Null),
      Classification(Null, Num(30), Str("FLEXIVEL")),
      Classification(Str("FIXO"), Num(30), Null),
      Classification(Str("FIXO"), Null, Null),
      Classification(Str("FIXO"), Num(60), Str("FLEXIVEL")),
      Classification(Str("FLEXIVEL"), Num(60), Null),
      Classification(Str("FLEXIVEL"), Num(60), Str("FIXO")),
      Classification(Str("CORROMPIDO"), Num(60), Null) }

AmountSamples == {[amount |-> Num(3), intention |-> "ESSENCIAL"],
                  [amount |-> Num(1), intention |-> "LAZER"]}

ExpenseRow(id, a, c) ==
    [id |-> id, amount |-> a.amount, intention |-> a.intention,
     computed_rigidity |-> c.computed_rigidity,
     cancelability_score |-> c.cancelability_score,
     override_rigidity |-> c.override_rigidity]

\* Lists of n rows, the id of a row being its position.
ExpenseListsOfLen(n) ==
    { [k \in 1..n |-> ExpenseRow(k, a[k], c[k])] :
        a \in [1..n -> AmountSamples], c \in [1..n -> ClassificationSamples] }

ExpenseLists == UNION { ExpenseListsOfLen(n) : n \in 0..MaxExpenses }

DropPctSamples ==
    {Null, NaN, Rat(-1, 10), Rat(0, 10), Rat(5, 10), Rat(10, 10), Rat(12, 10)}

\* Nothing has been sent to simulate-drop-income yet.
NoRequest == [method |-> "NONE"]

\* The request sent to simulate-drop-income: its method and its query parameter.
DropRequest(method, param) == [method |-> method, drop_pct |-> param]

InitReport ==
    /\ request = NoRequest
    /\ response = Pending
    /\ responseSimple = Pending
    /\ summary = Pending
    /\ simulation = Pending
    /\ ClientIdle
    /\ \/ env = OkEnv /\ profile \in ProfileSamples /\ expenses \in ExpenseLists
       \/ env = OkEnv /\ profile = Null /\ expenses \in ExpenseListsOfLen(1)
       \/ env \in FailingEnvs /\ profile \in ProfileSamples /\ expenses \in ExpenseListsOfLen(1)

GetMonthSummary ==
    /\ summary = Pending
    /\ summary' = ServeMonthSummary(env, profile, expenses)
    /\ UNCHANGED <<request, response, responseSimple, env, profile, expenses, simulation,
                 projection, scoreCall, previewHook>>

SimulateDropIncome ==
    /\ simulation = Pending
    /\ \E param \in DropPctSamples :
            /\ request' = DropRequest(env.method, param)
            /\ simulation' = ServeSimulateDropIncome(env, param, profile, expenses)
    /\ UNCHANGED <<response, responseSimple, env, profile, expenses, summary,
                 projection, scoreCall, previewHook>>

NextReport == GetMonthSummary \/ SimulateDropIncome

SpecReport == InitReport /\ [][NextReport]_vars

-----------------------------------------------------------------------------
(* The largest fixed expenses: longer lists of stored expenses, of a few    *)
(* kinds of rows, summarised by month-summary.                              *)

\* Longest list of stored expenses in this specification.
MaxTop == 6

\* Rows counted as FIXO of three different amounts (one of them
\* unclassified) and a large row classified FLEXIVEL.
TopRowSamples ==
    { <<[amount |-> Num(1), intention |-> "LAZER"], Classification(Str("FIXO"), Num(30), Null)>>,
      <<[amount |-> Num(2), intention |-> "ESSENCIAL"], Classification(Null, Null, Null)>>,
      <<[amount |-> Num(3), intention |-> "LAZER"], Classification(Str("FIXO"), Num(60), Null)>>,
      <<[amount |-> Num(3), intention |-> "LAZER"], Classification(Str("FLEXIVEL"), Num(60), Null)>> }

TopLists ==
    UNION { { [k \in 1..n |-> ExpenseRow(k, pick[k][1], pick[k][2])] :
                pick \in [1..n -> TopRowSamples] } : n \in 0..MaxTop }

InitTop ==
    /\ request = NoRequest
    /\ response = Pending
    /\ responseSimple = Pending
    /\ summary = Pending
    /\ simulation = Pending
    /\ ClientIdle
    /\ env = OkEnv
    /\ profile = ProfileRow(Num(10), Bool(FALSE), Num(0), Num(6), Num(0))
    /\ expenses \in TopLists

NextTop == GetMonthSummary

SpecTop == InitTop /\ [][NextTop]_vars

-----------------------------------------------------------------------------
(* Properties of the scoring function. *)

\* The request passed validateInput.
Accepted == request.method = "POST" /\ validateInput(request.json).valid

\* The validated attributes of the request.
Attrs == validateInput(request.json).data

Scored == Accepted /\ response.status = 200
Result == response.body.data

ScoredSimple == Accepted /\ responseSimple.status = 200
ResultSimple == responseSimple.body.data

AnyHardSignal(e) ==
    \/ e.has_legal_link
    \/ e.contract_months_remaining > 0
    \/ e.essential_obligation
    \/ e.notice_days >= 30

ReasonLength(e) ==
    IF e.override_reason = Null THEN 0 ELSE Len(Trim(e.override_reason.val))

Contains(s, w) == \E i \in 1..Len(s) : s[i] = w

\* C1: with hard caps, an override FLEXIVEL with a reason of trimmed length
\* >= 8 on an expense that has a hard signal yields rigidity_effective FIXO
\* and the override-blocked warning.
C1_OverrideBlockedByHardSignal ==
    (Scored /\ Attrs.override_rigidity = Str("FLEXIVEL")
            /\ ReasonLength(Attrs) >= 8 /\ AnyHardSignal(Attrs))
    => (Result.rigidity_effective = "FIXO" /\ Contains(Result.warnings, WarnOverrideBlocked))

\* C1 witness: such an override on an expense whose only hard signal is the notice period.
C1_Witness ==
    /\ Scored /\ Attrs.override_rigidity = Str("FLEXIVEL") /\ ReasonLength(Attrs) >= 8
    /\ Attrs.notice_days >= 30 /\ ~Attrs.has_legal_link /\ ~Attrs.essential_obligation
    /\ Attrs.contract_months_remaining = 0
    /\ Result.computed_rigidity = "FLEXIVEL" /\ Result.rigidity_effective = "FIXO"

\* C3: without hard caps, rigidity_effective is never FLEXIVEL for an expense
\* with a hard signal and override FLEXIVEL, whatever the reason.
C3_SimpleNeverFlexivelWithHardSignal ==
    (ScoredSimple /\ Attrs.override_rigidity = Str("FLEXIVEL") /\ AnyHardSignal(Attrs))
    => ResultSimple.rigidity_effective # "FLEXIVEL"

\* C5: with hard caps, a legal link keeps the score at or below 50.
C5_LegalLinkCap == (Scored /\ Attrs.has_legal_link) => Result.cancelability_score <= 50

\* C5 witness: a legally linked expense scored exactly 50, nothing else held against it.
C5_Witness ==
    /\ Scored /\ Attrs.has_legal_link /\ Attrs.substitutability = 10
    /\ Attrs.contract_months_remaining = 0 /\ Attrs.cancellation_fee_pct = 0
    /\ Result.cancelability_score = 50

\* C6: with hard caps, an active contract keeps the score at or below 60.
C6_ContractCap ==
    (Scored /\ Attrs.contract_months_remaining > 0) => Result.cancelability_score <= 60

\* C6 witness: a one-month contract, nothing else held against it, scored exactly 60.
C6_Witness ==
    /\ Scored /\ Attrs.contract_months_remaining = 1 /\ ~Attrs.has_legal_link
    /\ Attrs.substitutability = 10 /\ Result.cancelability_score = 60

\* C7: for every accepted expense both versions return a score in 0..100.
C7_ScoreRange ==
    /\ Scored => Result.cancelability_score \in 0..100
    /\ ScoredSimple => ResultSimple.cancelability_score \in 0..100

\* C7 witness: both versions answered an expense whose penalties add up to
\* more than 100, and both clamped the score to 0.
C7_Witness ==
    /\ Scored /\ ScoredSimple
    /\ ScorePenalties(Attrs) > ScoreScale * 100
    /\ Result.cancelability_score = 0 /\ ResultSimple.cancelability_score = 0

\* C8: with hard caps, override FIXO always yields rigidity_effective FIXO.
C8_OverrideFixoHonoured ==
    (Scored /\ Attrs.override_rigidity = Str("FIXO")) => Result.rigidity_effective = "FIXO"

\* C8 witness: override FIXO on an expense the system classified FLEXIVEL.
C8_Witness ==
    /\ Scored /\ Attrs.override_rigidity = Str("FIXO")
    /\ Result.computed_rigidity = "FLEXIVEL" /\ Result.rigidity_effective = "FIXO"

\* C9: with hard caps, override FLEXIVEL with a reason of trimmed length < 8
\* (or none) leaves rigidity_effective at computed_rigidity and emits the
\* override-rejected warning.
C9_ShortReasonRejected ==
    (Scored /\ Attrs.override_rigidity = Str("FLEXIVEL") /\ ReasonLength(Attrs) < 8)
    => (Result.rigidity_effective = Result.computed_rigidity
        /\ Contains(Result.warnings, WarnOverrideRejected))

\* C9 witness: a reason of 9 characters of which only 7 remain after trim,
\* on an expense without hard signals classified FIXO.
C9_Witness ==
    /\ Scored /\ Attrs.override_rigidity = Str("FLEXIVEL")
    /\ Attrs.override_reason # Null /\ Len(Attrs.override_reason.val) >= 8
    /\ ReasonLength(Attrs) < 8 /\ ~AnyHardSignal(Attrs)
    /\ Result.computed_rigidity = "FIXO" /\ Result.rigidity_effective = "FIXO"

\* C10: with hard caps, computed_rigidity follows the table: with a hard
\* signal FIXO, unless score >= 90 without legal link and without active
\* contract (then FLEXIVEL, with the exception warning); without a hard
\* signal FIXO iff score < 55.
C10_ComputedRigidityTable ==
    Scored =>
        LET e == Attrs
            score == Result.cancelability_score
            exception == AnyHardSignal(e) /\ score >= 90 /\ ~e.has_legal_link
                         /\ ~(e.contract_months_remaining > 0)
        IN  /\ Result.computed_rigidity =
                 (IF AnyHardSignal(e)
                  THEN (IF exception THEN "FLEXIVEL" ELSE "FIXO")
                  ELSE (IF score < 55 THEN "FIXO" ELSE "FLEXIVEL"))
            /\ Contains(Result.warnings, WarnScoreException) <=> exception

\* C10 witness: the exception row of the table.
C10_Witness ==
    /\ Scored /\ AnyHardSignal(Attrs) /\ Result.cancelability_score = 90
    /\ Result.computed_rigidity = "FLEXIVEL"
    /\ Contains(Result.warnings, WarnScoreException)

\* The request with its override replaced.
WithOverride(o, r) ==
    [method |-> "POST",
     json |-> Obj([request.json.val EXCEPT !.override_rigidity = o, !.override_reason = r])]

\* C11: with hard caps, cancelability_score and computed_rigidity do not
\* depend on the override: an accepted expense and any expense that differs
\* from it only in override_rigidity and override_reason get the same score
\* and the same computed_rigidity.
C11_OverrideIndependent ==
    Scored =>
        \A o \in OverrideSamples, r \in ReasonSamples :
            LET other == ServeComputeExpense(WithOverride(o, r))
            IN  /\ other.status = 200
                /\ other.body.data.cancelability_score = Result.cancelability_score
                /\ other.body.data.computed_rigidity = Result.computed_rigidity

\* C11 witness: an override that changed rigidity_effective and left
\* computed_rigidity as it is without the override.
C11_Witness ==
    /\ Scored /\ Attrs.override_rigidity = Str("FLEXIVEL")
    /\ Result.computed_rigidity = "FIXO" /\ Result.rigidity_effective = "FLEXIVEL"
    /\ ServeComputeExpense(WithOverride(Null, Null)).body.data.rigidity_effective = "FIXO"

\* C12 as stated: the scenario expense is scored exactly 50 and classified FIXO.
C12_ScenarioScore50 ==
    (request.json = Obj(ScenarioPayload) /\ request.method = "POST" /\ response # Pending)
    => (response.status = 200 /\ Result.cancelability_score = 50
        /\ Result.computed_rigidity = "FIXO")

\* C12: the scenario expense (contract 12 months, fee 20%, legal link, not
\* essential, substitutability 5, no notice, no override) is scored exactly
\* 41 (100 - 24 - 5 - 20 - 10, below both caps) and classified FIXO.
C12_ScenarioScore41 ==
    (request.json = Obj(ScenarioPayload) /\ request.method = "POST" /\ response # Pending)
    => (response.status = 200 /\ Result.cancelability_score = 41
        /\ Result.computed_rigidity = "FIXO")

\* C12 witness: the scenario expense has been scored.
C12_Witness ==
    /\ request.json = Obj(ScenarioPayload) /\ request.method = "POST"
    /\ response.status = 200 /\ Result.rigidity_effective = "FIXO"

\* An optional numeric field that is present and not a number >= 0.
NotNonNegative(v) == v # Null /\ (v.type # "number" \/ v.val < 0)

\* An optional numeric field that is present and not a number of lo..hi.
NotWithin(v, lo, hi) == v # Null /\ (v.type # "number" \/ v.val < lo \/ v.val > hi)

\* The payload breaks one of the validation rules.
BreaksRule(d) ==
    \/ d.name.type # "string"
    \/ Trim(d.name.val) = <<>>
    \/ d.amount.type # "number"
    \/ d.amount.val < 0
    \/ NotNonNegative(d.contract_months_remaining)
    \/ NotNonNegative(d.notice_days)
    \/ NotWithin(d.cancellation_fee_pct, 0, 100)
    \/ NotWithin(d.substitutability, 0, 10)
    \/ (d.has_legal_link # Null /\ d.has_legal_link.type # "boolean")
    \/ (d.essential_obligation # Null /\ d.essential_obligation.type # "boolean")
    \/ (d.override_rigidity # Null /\ d.override_rigidity \notin {Str("FIXO"), Str("FLEXIVEL")})
    \/ (d.override_reason # Null /\ d.override_reason.type # "string")

\* The body of a POST that parsed and is not an acceptable expense.
Rejectable ==
    /\ request.method = "POST" /\ request.json # Unparseable
    /\ (request.json.type # "object" \/ BreaksRule(request.json.val))

\* C15: with hard caps, a payload that breaks a validation rule is answered
\* with status 400 and an error, without cancelability_score or rigidity;
\* a score is returned only for a payload that breaks no rule.
C15_InvalidPayloadRejected ==
    response # Pending =>
        /\ Rejectable => (response.status = 400 /\ DOMAIN response.body = {"error"})
        /\ (request.method = "POST" /\ response.status = 200) => ~Rejectable

\* C15 witness: a payload whose only fault is a fee above 100 was rejected.
C15_Witness ==
    /\ request.method = "POST" /\ request.json.type = "object"
    /\ request.json.val.cancellation_fee_pct = Num(101)
    /\ response.status = 400 /\ response.body.error = "cancellation_fee_pct"

\* The warnings in the order the classifier pushes them, each under its condition.
ExpectedWarnings(e, score) ==
    LET flexivel == e.override_rigidity = Str("FLEXIVEL")
        When(cond, w) == IF cond THEN <<w>> ELSE <<>>
    IN     When(AnyHardSignal(e) /\ score >= 90 /\ ~e.has_legal_link
                /\ e.contract_months_remaining = 0, WarnScoreException)
        \o When(flexivel /\ ReasonLength(e) < 8, WarnOverrideRejected)
        \o When(flexivel /\ ReasonLength(e) >= 8 /\ AnyHardSignal(e), WarnOverrideBlocked)
        \o When(e.cancellation_fee_pct >= 50, WarnHighFee)
        \o When(e.contract_months_remaining >= 12, WarnLongContract)
        \o When(e.substitutability <= 2, WarnLowSubstitutability)
        \o When(e.has_legal_link /\ score = 50, WarnCapLegal)
        \o When(e.contract_months_remaining > 0 /\ score = 60, WarnCapContract)

\* C20: with hard caps, the warnings are exactly those whose condition holds,
\* each once, in the fixed order exception, override (rejected or blocked),
\* fee >= 50, contract >= 12, substitutability <= 2, cap (legal or contract).
C20_WarningOrder ==
    Scored =>
        /\ Result.warnings = ExpectedWarnings(Attrs, Result.cancelability_score)
        /\ \A i, j \in 1..Len(Result.warnings) :
                Result.warnings[i] = Result.warnings[j] => i = j
        /\ ~(Contains(Result.warnings, WarnOverrideRejected)
             /\ Contains(Result.warnings, WarnOverrideBlocked))
        /\ ~(Contains(Result.warnings, WarnCapLegal)
             /\ Contains(Result.warnings, WarnCapContract))

\* C20 witness: a blocked override followed by the three contextual warnings.
C20_Witness ==
    /\ Scored
    /\ Result.warnings =
          <<WarnOverrideBlocked, WarnHighFee, WarnLongContract, WarnLowSubstitutability>>

\* C27: with hard caps, an expense with a hard signal that is classified
\* FLEXIVEL scores exactly 90 and its only hard signal is a notice period of
\* 30 days or more; no expense with a hard signal scores above 90.
C27_ExceptionOnlyAtNinety ==
    (Scored /\ AnyHardSignal(Attrs)) =>
        /\ Result.cancelability_score <= 90
        /\ Result.computed_rigidity = "FLEXIVEL" =>
              /\ Result.cancelability_score = 90
              /\ Attrs.notice_days >= 30
              /\ ~Attrs.has_legal_link /\ ~Attrs.essential_obligation
              /\ Attrs.contract_months_remaining = 0

\* C27 witness: a notice of 30 days and a fee of 2%: 100 - 10 - 0.5 rounds to
\* 90, the expense is classified FLEXIVEL.
C27_Witness ==
    /\ Scored /\ Attrs.notice_days = 30 /\ Attrs.cancellation_fee_pct = 2
    /\ Result.cancelability_score = 90 /\ Result.computed_rigidity = "FLEXIVEL"

-----------------------------------------------------------------------------
(* Properties of the reports. *)

Summarised == env.method = "GET" /\ summary.status = 200
Report == summary.body.data

Simulated == env.method = "GET" /\ simulation.status = 200
SimResult == simulation.body.data

\* The positions of the stored expenses that satisfy Test.
Positions(Test(_)) == {k \in 1..Len(expenses) : Test(expenses[k])}

RECURSIVE AmountOver(_)
AmountOver(K) ==
    IF K = {} THEN 0
    ELSE LET k == CHOOSE j \in K : TRUE
         IN  Coalesce(expenses[k].amount, 0) + AmountOver(K \ {k})

NoRigidity(e) == e.computed_rigidity = Null
StoredFixo(e) == e.computed_rigidity = Str("FIXO")
StoredOther(e) == ~NoRigidity(e) /\ ~StoredFixo(e)
NoScore(e) == e.cancelability_score = Null

\* The counts of the warnings with this text, in order.
WarningCounts(text) ==
    LET Matches(w) == w.text = text
        found == SelectSeq(Report.warnings, Matches)
    IN  [k \in 1..Len(found) |-> found[k].n]

CountWarning(n) == IF n > 0 THEN <<n>> ELSE <<>>

\* C2: in the month-summary aggregation every expense without a stored
\* computed_rigidity is added to fixed_total, never to flexible_total,
\* whatever its score; the unclassified warning carries the number of such
\* expenses, and the expenses without a score are counted on their own, with
\* their own warning.
C2_UnclassifiedCountedAsFixo ==
    Summarised =>
        /\ Report.fixed_total = AmountOver(Positions(NoRigidity)) + AmountOver(Positions(StoredFixo))
        /\ Report.flexible_total = AmountOver(Positions(StoredOther))
        /\ WarningCounts(WarnUnclassified) = CountWarning(Cardinality(Positions(NoRigidity)))
        /\ WarningCounts(WarnNoScore) = CountWarning(Cardinality(Positions(NoScore)))

\* C2 witness: two unclassified expenses, one with a score of 60 and one
\* without a score, both counted as fixed.
C2_Witness ==
    /\ Summarised /\ Len(expenses) = 2
    /\ Positions(NoRigidity) = {1, 2}
    /\ expenses[1].cancelability_score = Num(60) /\ expenses[2].cancelability_score = Null
    /\ Report.fixed_total = AmountOver({1, 2}) /\ Report.fixed_total > 0
    /\ Report.flexible_total = 0
    /\ WarningCounts(WarnUnclassified) = <<2>> /\ WarningCounts(WarnNoScore) = <<1>>

\* C4: over the same stored expenses the income-drop simulation and the
\* month-summary aggregator compute the same fixed_total.
C4_SameFixedTotal ==
    (Summarised /\ Simulated)
    => RatEq(SimResult.fixed_total, Rat(Report.fixed_total, 1))

\* The columns of the stored profile, 0 or false where the column is null.
IncomeFloor == Coalesce(profile.income_floor, 0)
DebtService == Coalesce(profile.debt_service, 0)
Dependents == Coalesce(profile.dependents, 0)
EmergencyReserve == Coalesce(profile.emergency_reserve, 0)
VariableIncome == Coalesce(profile.income_is_variable, FALSE)

Essential(e) == e.intention = "ESSENCIAL"
CountedFixo(e) == NoRigidity(e) \/ StoredFixo(e)
EssentialFixo(e) == Essential(e) /\ CountedFixo(e)

\* The report carries the warning with this text, once.
Warned(text) == Len(WarningCounts(text)) = 1
NotWarned(text) == Len(WarningCounts(text)) = 0

\* The request reached the computation of month-summary and was answered.
SummaryAnswered == env = OkEnv /\ profile # Null /\ summary # Pending

\* C13: for a profile with income_floor = 0 the monthly report is computed
\* (status 200) with fixed_pct = 0 and rigidity_index = 0, whatever the
\* expenses and the debt service.
C13_ZeroIncome ==
    (SummaryAnswered /\ IncomeFloor = 0)
    => (summary.status = 200 /\ Report.fixed_pct.num = 0 /\ Report.rigidity_index.num = 0)

\* C13 witness: no income, a debt service and fixed expenses.
C13_Witness ==
    /\ SummaryAnswered /\ IncomeFloor = 0 /\ DebtService > 0
    /\ summary.status = 200 /\ Report.fixed_total > 0 /\ Report.fixed_pct.num = 0

\* C14: for debt_service >= 0, dscr is null iff debt_service = 0; otherwise
\* with dscr = (income_floor - essentials) / debt_service the status is
\* Critico for dscr < 1, Apertado for 1 <= dscr < 1.5, Saudavel for
\* dscr >= 1.5, and a DSCR warning is emitted exactly in the first two cases.
C14_Dscr ==
    (Summarised /\ DebtService >= 0) =>
        LET available == IncomeFloor - AmountOver(Positions(Essential))
            critical == DebtService > 0 /\ available < DebtService
            tight == DebtService > 0 /\ ~critical /\ 2 * available < 3 * DebtService
        IN  /\ (Report.dscr = Null) <=> (DebtService = 0)
            /\ DebtService > 0 =>
                  Report.dscr_status = (IF critical THEN "Critico"
                                        ELSE IF tight THEN "Apertado" ELSE "Saudavel")
            /\ IF critical THEN Warned(WarnDscrCritical) ELSE NotWarned(WarnDscrCritical)
            /\ IF tight THEN Warned(WarnDscrTight) ELSE NotWarned(WarnDscrTight)

\* C14 witness: a DSCR of exactly 1.5, healthy and without a warning.
C14_Witness ==
    /\ Summarised /\ DebtService > 0
    /\ 2 * (IncomeFloor - AmountOver(Positions(Essential))) = 3 * DebtService
    /\ Report.dscr_status = "Saudavel" /\ Report.dscr = Rat(150, 100)
    /\ NotWarned(WarnDscrTight)

\* The drop_pct of the request sent to the simulation is this number.
DropPctSent == request.drop_pct

\* A simulation request that carried a bearer header and a numeric drop_pct.
SimulationSent ==
    /\ simulation # Pending /\ env.method = "GET" /\ env.bearer
    /\ DropPctSent \notin {Null, NaN}

\* C16: for a request with a bearer header, a drop_pct below 0 or above 1
\* is answered with status 400 and an error only; a drop_pct of [0,1] is
\* never answered with status 400.
C16_DropPctRange ==
    SimulationSent =>
        IF DropPctSent.num < 0 \/ DropPctSent.num > DropPctSent.den
        THEN simulation.status = 400 /\ DOMAIN simulation.body = {"error"}
        ELSE simulation.status # 400

\* C16 witness: drop_pct = 1.2 was rejected.
C16_Witness ==
    /\ SimulationSent /\ DropPctSent = Rat(12, 10) /\ simulation.status = 400

\* 35, minus 5 for a variable income, minus the dependents up to 4, within 25..38.
AdaptiveLimit ==
    LET raw == 35 - (IF VariableIncome THEN 5 ELSE 0)
                  - (IF Dependents < 4 THEN Dependents ELSE 4)
    IN  IF raw < 25 THEN 25 ELSE IF raw > 38 THEN 38 ELSE raw

\* C17: for dependents >= 0 the adaptive limit is 35 - (5 if the income is
\* variable) - min(dependents, 4) clamped to 25..38; above_adaptive_limit is
\* true, and its warning emitted, exactly when fixed_total / income_floor * 100
\* (unrounded, 0 without income) is strictly above the limit.
C17_AdaptiveLimit ==
    (Summarised /\ Dependents >= 0) =>
        LET above == IncomeFloor > 0 /\ Report.fixed_total * 100 > AdaptiveLimit * IncomeFloor
        IN  /\ Report.adaptive_limit_pct = AdaptiveLimit
            /\ Report.adaptive_limit_pct \in 25..38
            /\ Report.above_adaptive_limit <=> above
            /\ IF above THEN Warned(WarnAboveAdaptiveLimit)
                ELSE NotWarned(WarnAboveAdaptiveLimit)

\* C17 witness: fixed costs of exactly the limit (30%) are not above it.
C17_Witness ==
    /\ Summarised /\ IncomeFloor > 0 /\ AdaptiveLimit = 30
    /\ Report.fixed_total * 100 = 30 * IncomeFloor
    /\ ~Report.above_adaptive_limit /\ NotWarned(WarnAboveAdaptiveLimit)

\* The base of the runway: the essentials counted as FIXO, or all the
\* essentials when none of them is.
RunwayFallback ==
    AmountOver(Positions(EssentialFixo)) = 0 /\ AmountOver(Positions(Essential)) > 0
RunwayBaseTotal ==
    IF RunwayFallback THEN AmountOver(Positions(Essential))
    ELSE AmountOver(Positions(EssentialFixo))

\* C18: runway_months is emergency_reserve / runwayBase (to one decimal, as
\* the report rounds months), runwayBase being the ESSENCIAL expenses counted
\* as FIXO, or all ESSENCIAL expenses when that total is 0 and theirs is > 0;
\* the fallback warning is emitted exactly in that case; runway_months is
\* null exactly when runwayBase = 0; the low-runway warning is emitted
\* exactly when the unrounded runway exists and is < 3.
C18_Runway ==
    Summarised =>
        LET base == RunwayBaseTotal
            r == Report.runway_months
        IN  /\ (r = Null) <=> (base = 0)
            /\ base > 0 =>
                  /\ r.den = 10
                  /\ 2 * base * r.num - base <= 20 * EmergencyReserve
                  /\ 20 * EmergencyReserve < 2 * base * r.num + base
            /\ IF RunwayFallback THEN Warned(WarnRunwayFallback)
                ELSE NotWarned(WarnRunwayFallback)
            /\ IF base > 0 /\ EmergencyReserve < 3 * base THEN Warned(WarnRunwayLow)
                ELSE NotWarned(WarnRunwayLow)

\* C18 witness: the fallback, with a reserve of a third of the essentials.
C18_Witness ==
    /\ Summarised /\ RunwayFallback /\ 3 * EmergencyReserve = RunwayBaseTotal
    /\ Report.runway_months = Rat(3, 10)
    /\ Warned(WarnRunwayFallback) /\ Warned(WarnRunwayLow)

\* C19: top_fixed_expenses holds only expenses counted as FIXO (stored FIXO
\* or unclassified), each once and with its amount, exactly min(5, number of
\* such expenses) of them, in order of non-increasing amount, and no expense
\* counted as FIXO that is left out has a larger amount than one included.
C19_TopFixed ==
    Summarised =>
        LET top == Report.top_fixed_expenses
            fixed == Positions(CountedFixo)
            ids == {top[i].id : i \in 1..Len(top)}
        IN  /\ Len(top) = (IF Cardinality(fixed) < 5 THEN Cardinality(fixed) ELSE 5)
            /\ ids \subseteq fixed
            /\ Cardinality(ids) = Len(top)
            /\ \A i \in 1..Len(top) : top[i].amount = Coalesce(expenses[top[i].id].amount, 0)
            /\ \A i \in 1..(Len(top) - 1) : top[i].amount >= top[i + 1].amount
            /\ \A k \in fixed \ ids : \A i \in 1..Len(top) :
                    Coalesce(expenses[k].amount, 0) <= top[i].amount

\* C19 witness: six expenses counted as FIXO, the first stored being one of
\* the smallest; five are listed, the largest first, and the first is left out.
C19_Witness ==
    /\ Summarised /\ Cardinality(Positions(CountedFixo)) = 6
    /\ expenses[1].amount = Num(1) /\ expenses[6].amount = Num(3)
    /\ Len(Report.top_fixed_expenses) = 5
    /\ Report.top_fixed_expenses[1].amount = 3
    /\ \A i \in 1..5 : Report.top_fixed_expenses[i].id # 1

StoredFlexivel(e) == e.computed_rigidity = Str("FLEXIVEL")
NotStoredFlexivel(e) == ~StoredFlexivel(e)

\* C23: in the month-summary aggregation flexible_total is the total of the
\* expenses stored with computed_rigidity FLEXIVEL; every other expense
\* (null, or a string that is neither FIXO nor FLEXIVEL) is in fixed_total.
C23_OnlyFlexivelIsFlexible ==
    Summarised =>
        /\ Report.flexible_total = AmountOver(Positions(StoredFlexivel))
        /\ Report.fixed_total = AmountOver(Positions(NotStoredFlexivel))

\* C24: in the income-drop simulation every expense stored with
\* computed_rigidity FIXO or null is part of fixed_total, whatever its
\* override_rigidity and its cancelability_score.
C24_SimulationKeepsFixed ==
    Simulated =>
        RatGe(SimResult.fixed_total, Rat(AmountOver(Positions(CountedFixo)), 1))

\* OK < AMARELO < VERMELHO
Severity(status) == IF status = "VERMELHO" THEN 2 ELSE IF status = "AMARELO" THEN 1 ELSE 0

\* C26 as stated: in every monthly report overall_risk.status is at least
\* as severe as fixed_zone.status.
C26_OverallAtLeastFixedZone ==
    Summarised => Severity(Report.overall_risk.status) >= Severity(Report.fixed_zone.status)

\* C26: in every monthly report overall_risk.status is at least AMARELO
\* when fixed_zone.status is VERMELHO; it need not reach the severity of
\* fixed_zone.status.
C26_OverallAtLeastAmareloInRedZone ==
    (Summarised /\ Report.fixed_zone.status = "VERMELHO")
    => Report.overall_risk.status \in {"AMARELO", "VERMELHO"}

\* C26 witness: fixed costs of 40% of the income, no debt, a long runway:
\* the fixed zone is VERMELHO and the overall risk AMARELO.
C26_Witness ==
    /\ Summarised /\ Report.fixed_zone.status = "VERMELHO"
    /\ Report.overall_risk.status = "AMARELO"
    /\ Report.fixed_total * 100 = 40 * IncomeFloor

\* C28: for drop_pct of [0,1] the simulation returns coverage_months as a
\* finite number >= 0, also when fixed_total is 0, and breaks is true
\* exactly when fixed_total > income_floor * (1 - drop_pct).
C28_CoverageFinite ==
    (Simulated /\ SimResult.drop_pct # NaN) =>
        LET d == SimResult.drop_pct
        IN  /\ SimResult.coverage_months \notin {Infinity, NaN, Null}
            /\ SimResult.coverage_months.num >= 0
            /\ SimResult.breaks <=>
                  (SimResult.fixed_total.num * d.den
                     > SimResult.fixed_total.den * IncomeFloor * (d.den - d.num))

-----------------------------------------------------------------------------
(* projection-first-million: months of a monthly contribution needed to     *)
(* reach a target at a compound return.                                     *)
(*                                                                          *)
(* With a return above 0 the code works in floating point on irrational     *)
(* numbers.  The model encloses every real quantity between two fixed-point *)
(* numbers of eight decimals (units of 1 / FixedOne), rounding the lower    *)
(* end down and the upper end up; money is enclosed in cents.  A quantity   *)
(* the code computes exactly has both ends equal.  Parameters are sampled   *)
(* at integers, targets at non-negative ones.                               *)

FixedOne == 10^8
FixedHalf == 10^4

\* a * f = q * c + r with 0 <= r < c; for c > 0, f >= 0 and c * f within 32 bits
MulDivSplit(a, f, c) ==
    LET part == (a % c) * f
    IN  [q |-> (a \div c) * f + (part \div c), r |-> part % c]

\* a * g = q * FixedOne + r with 0 <= r < FixedOne, for fixed-point a, g >= 0,
\* by halves of four digits, so that no intermediate value leaves 32 bits
MulFixed(a, g) ==
    LET ah == a \div FixedHalf
        al == a % FixedHalf
        gh == g \div FixedHalf
        gl == g % FixedHalf
        mid == ah * gl + al * gh
        low == (mid % FixedHalf) * FixedHalf + al * gl
    IN  [q |-> ah * gh + (mid \div FixedHalf) + (low \div FixedOne), r |-> low % FixedOne]

Floor(m) == m.q
Ceil(m) == m.q + (IF m.r > 0 THEN 1 ELSE 0)

\* g^n for a fixed-point g >= 1 by squaring, every product rounded down
RECURSIVE PowDown(_, _)
PowDown(g, n) ==
    IF n = 0 THEN FixedOne
    ELSE LET h == PowDown(g, n \div 2)
             sq == Floor(MulFixed(h, h))
         IN  IF n % 2 = 0 THEN sq ELSE Floor(MulFixed(sq, g))

\* The same with every product rounded up
RECURSIVE PowUp(_, _)
PowUp(g, n) ==
    IF n = 0 THEN FixedOne
    ELSE LET h == PowUp(g, n \div 2)
             sq == Ceil(MulFixed(h, h))
         IN  IF n % 2 = 0 THEN sq ELSE Ceil(MulFixed(sq, g))

Exactly(x) == [lo |-> x, hi |-> x]

\* Enclosures of the twelfth roots the sampled returns need.
FactorBrackets ==
    { [lo |-> 100643400, hi |-> 100643410],     \* 1.08^(1/12) = 1.00643403...
      [lo |-> 105946300, hi |-> 105946400] }    \* 2^(1/12)    = 1.05946309...

\* Mutant: the annual return divided by 12 (nominal rate).
MonthlyFactor_Nominal(annualReturnPct) ==
    Exactly(FixedOne + (annualReturnPct * (FixedOne \div 100)) \div 12)

\* Math.pow(1 + annualReturnPct / 100, 1 / 12): exactly 1 for a return of 0,
\* else the bracket whose twelfth powers enclose 1 + annualReturnPct / 100.
MonthlyFactor(annualReturnPct) ==
    IF annualReturnPct = 0 THEN Exactly(FixedOne)
    ELSE LET annual == FixedOne + annualReturnPct * (FixedOne \div 100)
         IN  CHOOSE bracket \in FactorBrackets :
                 PowUp(bracket.lo, 12) <= annual /\ PowDown(bracket.hi, 12) >= annual

\* Mutant: the quotient rounded down.
CeilDiv_Floor(n, d) == n \div d

\* Math.ceil(n / d) for d > 0
CeilDiv(n, d) == -((-n) \div d)

\* The least m >= n with g^m >= k, given p = g^n < k or n = 0, powers rounded
\* down: whole steps (of step months, growing by gs = g^step) while the next
\* one stays below k, then month by month.
RECURSIVE LeastPowDown(_, _, _, _, _, _)
LeastPowDown(n, p, g, k, step, gs) ==
    IF p >= k THEN n
    ELSE IF step > 1 /\ Floor(MulFixed(p, gs)) < k
        THEN LeastPowDown(n + step, Floor(MulFixed(p, gs)), g, k, step, gs)
    ELSE LeastPowDown(n + 1, Floor(MulFixed(p, g)), g, k, 1, g)

\* The same with powers rounded up
RECURSIVE LeastPowUp(_, _, _, _, _, _)
LeastPowUp(n, p, g, k, step, gs) ==
    IF p >= k THEN n
    ELSE IF step > 1 /\ Ceil(MulFixed(p, gs)) < k
        THEN LeastPowUp(n + step, Ceil(MulFixed(p, gs)), g, k, step, gs)
    ELSE LeastPowUp(n + 1, Ceil(MulFixed(p, g)), g, k, 1, g)

\* Math.ceil(Math.log(1 + target * rate / contribution) / Math.log(1 + rate))
\* is the least number of months whose growth factor reaches
\* 1 + target * rate / contribution: the numbers the enclosures allow.
MonthsByLog(monthlyContribution, factor, targetAmount) ==
    LET ratioLo == FixedOne + Floor(MulDivSplit(targetAmount, factor.lo - FixedOne,
                                                monthlyContribution))
        ratioHi == FixedOne + Ceil(MulDivSplit(targetAmount, factor.hi - FixedOne,
                                               monthlyContribution))
    IN  LeastPowUp(0, FixedOne, factor.hi, ratioLo, 12, PowUp(factor.hi, 12))
            .. LeastPowDown(0, FixedOne, factor.lo, ratioHi, 12, PowDown(factor.lo, 12))

\* The values months can take
Months(monthlyContribution, factor, targetAmount) ==
    IF factor = Exactly(FixedOne)
    THEN {CeilDiv(targetAmount, monthlyContribution)}
    ELSE MonthsByLog(monthlyContribution, factor, targetAmount)

\* monthlyContribution * (growth / rate) in cents: the quotient to the cent
\* first, then the product by the contribution
Annuity(monthlyContribution, growth, rate) ==
    LET cents == MulDivSplit(growth, 100, rate)
        rest == MulDivSplit(cents.r, monthlyContribution, rate)
    IN  [q |-> cents.q * monthlyContribution + rest.q, r |-> rest.r]

\* finalValue, in cents
FinalValue(monthlyContribution, factor, months) ==
    IF factor = Exactly(FixedOne)
    THEN Exactly(100 * monthlyContribution * months)
    ELSE [lo |-> Floor(Annuity(monthlyContribution, PowDown(factor.lo, months) - FixedOne,
                               factor.hi - FixedOne)),
          hi |-> Ceil(Annuity(monthlyContribution, PowUp(factor.hi, months) - FixedOne,
                              factor.lo - FixedOne))]

\* Math.round((totalGains / totalContributed) * 10000) / 100, in hundredths
\* of a percent; 0 / 0 is NaN.
GainsPercentage(totalGains, totalContributed) ==
    IF totalContributed = 0 THEN NaN
    ELSE [lo |-> Floor(MulDivSplit(totalGains.lo, 100, totalContributed \div 100)),
          hi |-> Ceil(MulDivSplit(totalGains.hi, 100, totalContributed \div 100))]

\* months % 12 of JavaScript: the sign of the dividend
JsRemainder(a, b) == IF a >= 0 THEN a % b ELSE -((-a) % b)

\* The result for parameters that are numbers; money in cents.
Projection(monthlyContribution, annualReturnPct, targetAmount, months) ==
    LET factor == MonthlyFactor(annualReturnPct)
        years == months \div 12
        remainingMonths == JsRemainder(months, 12)
        finalValue == FinalValue(monthlyContribution, factor, months)
        totalContributed == 100 * monthlyContribution * months
        totalGains == [lo |-> finalValue.lo - totalContributed,
                       hi |-> finalValue.hi - totalContributed]
    IN  [monthly_contribution |-> Num(monthlyContribution),
         annual_return_pct |-> Num(annualReturnPct),
         target |-> Num(targetAmount),
         months_to_target |-> Num(months),
         years |-> Num(years),
         remaining_months |-> Num(remainingMonths),
         formatted_time |-> [anos |-> Num(years),
                             meses |-> IF remainingMonths > 0
                                       THEN Num(remainingMonths) ELSE Null],
         final_value |-> finalValue,
         total_contributed |-> Exactly(totalContributed),
         total_gains |-> totalGains,
         gains_percentage |-> GainsPercentage(totalGains, totalContributed)]

\* The result when a parameter does not parse: NaN passes both range tests
\* and every number computed from it is NaN.
ProjectionNaN(monthlyContribution, annualReturnPct, targetAmount) ==
    [monthly_contribution |-> monthlyContribution,
     annual_return_pct |-> annualReturnPct,
     target |-> targetAmount,
     months_to_target |-> NaN,
     years |-> NaN,
     remaining_months |-> NaN,
     formatted_time |-> [anos |-> NaN, meses |-> Null],
     final_value |-> NaN,
     total_contributed |-> NaN,
     total_gains |-> NaN,
     gains_percentage |-> NaN]

\* parseFloat(url.searchParams.get(name) ?? default)
ParseFloatParam(param, default) == IF param = Null THEN Num(default) ELSE param

\* Mutant: only negative returns are rejected.
ReturnOutOfRange_NoUpper(annualReturnPct) ==
    annualReturnPct # NaN /\ annualReturnPct.val < 0

\* annualReturnPct < 0 || annualReturnPct > 100: false for NaN.
ReturnOutOfRange(annualReturnPct) ==
    annualReturnPct # NaN /\ (annualReturnPct.val < 0 \/ annualReturnPct.val > 100)

\* serve handler of projection-first-million: the responses it can give
ServeProjection(req) ==
    LET monthlyContribution == ParseFloatParam(req.monthly_contribution, 0)
        annualReturnPct == ParseFloatParam(req.annual_return_pct, 8)
        targetAmount == ParseFloatParam(req.target, 1000000)
    IN
    IF req.method = "OPTIONS" THEN {[status |-> 200, body |-> Null]}
    ELSE IF ~req.bearer THEN {ErrorResponse(401, "Nao autorizado")}
    ELSE IF monthlyContribution # NaN /\ monthlyContribution.val <= 0
        THEN {ErrorResponse(400, "monthly_contribution deve ser maior que 0")}
    ELSE IF ReturnOutOfRange(annualReturnPct)
        THEN {ErrorResponse(400, "annual_return_pct deve estar entre 0 e 100")}
    ELSE IF NaN \in {monthlyContribution, annualReturnPct, targetAmount}
        THEN {[status |-> 200,
               body |-> [success |-> TRUE,
                         data |-> ProjectionNaN(monthlyContribution, annualReturnPct,
                                                targetAmount)]]}
    ELSE {[status |-> 200,
           body |-> [success |-> TRUE,
                     data |-> Projection(monthlyContribution.val, annualReturnPct.val,
                                         targetAmount.val, months)]] :
            months \in Months(monthlyContribution.val, MonthlyFactor(annualReturnPct.val),
                              targetAmount.val)}

-----------------------------------------------------------------------------
(* The requests the projection is exercised with.                           *)

\* Contributions and targets of a few units, with every sampled return
SmallProjections ==
    [monthly_contribution : {Null, NaN, Num(-1), Num(0), Num(1), Num(3)},
     annual_return_pct : {Null, NaN, Num(-1), Num(0), Num(8), Num(100), Num(101)},
     target : {NaN, Num(0), Num(7), Num(9)}]

\* A contribution of 1000 towards the default target of a million
MillionProjections ==
    [monthly_contribution : {Num(1000)},
     annual_return_pct : {Null, Num(0), Num(8)},
     target : {Null, Num(1000000)}]

ProjectionRequest(method, bearer, params) ==
    [method |-> method, bearer |-> bearer,
     monthly_contribution |-> params.monthly_contribution,
     annual_return_pct |-> params.annual_return_pct,
     target |-> params.target]

ProjectionRequests ==
    { ProjectionRequest(m, b, p) :
        m \in {"GET", "OPTIONS"}, b \in BOOLEAN, p \in SmallProjections \cup MillionProjections }

InitProjection ==
    /\ request \in ProjectionRequests
    /\ response = Pending
    /\ responseSimple = Pending
    /\ env = OkEnv
    /\ profile = Null
    /\ expenses = <<>>
    /\ summary = Pending
    /\ simulation = Pending
    /\ ClientIdle

ProjectFirstMillion ==
    /\ projection = Pending
    /\ projection' \in ServeProjection(request)
    /\ UNCHANGED <<request, response, responseSimple, env, profile, expenses, summary,
                   simulation, scoreCall, previewHook>>

NextProjection == ProjectFirstMillion

SpecProjection == InitProjection /\ [][NextProjection]_vars

-----------------------------------------------------------------------------
(* Properties of the projection *)

Projected == projection # Pending /\ projection.status = 200 /\ projection.body # Null
Growth == projection.body.data

\* What the request asks for, with the defaults of the handler
ContributionSent == IF request.monthly_contribution = Null THEN Num(0) ELSE request.monthly_contribution
ReturnSent == IF request.annual_return_pct = Null THEN Num(8) ELSE request.annual_return_pct
TargetSent == IF request.target = Null THEN Num(1000000) ELSE request.target

ProjectionSent == projection # Pending /\ request.method = "GET" /\ request.bearer

\* C21: with a contribution above 0, a target above 0 and a return of 0, the
\* months are ceil(target / contribution), final_value and total_contributed
\* are contribution * months, final_value >= target > final_value -
\* contribution, and total_gains and gains_percentage are 0; a request (with
\* a bearer header) whose contribution is <= 0 or whose return is outside
\* [0,100] is answered with an error and no projection.
C21_ZeroReturn ==
    ProjectionSent =>
        LET c == ContributionSent
            r == ReturnSent
            t == TargetSent
        IN  /\ (NaN \notin {c, r, t} /\ c.val > 0 /\ t.val > 0 /\ r.val = 0) =>
                  /\ Projected
                  /\ \E m \in 1..t.val :
                        /\ c.val * (m - 1) < t.val /\ t.val <= c.val * m
                        /\ Growth.months_to_target = Num(m)
                        /\ Growth.final_value = Exactly(100 * c.val * m)
                        /\ Growth.total_contributed = Exactly(100 * c.val * m)
                  /\ Growth.total_gains = Exactly(0)
                  /\ Growth.gains_percentage = Exactly(0)
            /\ ((c # NaN /\ c.val <= 0) \/ (r # NaN /\ (r.val < 0 \/ r.val > 100))) =>
                  /\ projection.status >= 400
                  /\ DOMAIN projection.body = {"error"}

\* C21 witness: 3 a month towards 7 without return takes 3 months.
C21_Witness ==
    /\ ProjectionSent /\ Projected
    /\ ContributionSent = Num(3) /\ ReturnSent = Num(0) /\ TargetSent = Num(7)
    /\ Growth.months_to_target = Num(3) /\ Growth.final_value = Exactly(900)

\* The scenario: 1000 a month at 8% a year towards 1000000.
ScenarioProjected ==
    /\ ProjectionSent /\ Projected
    /\ ContributionSent = Num(1000) /\ ReturnSent = Num(8) /\ TargetSent = Num(1000000)

\* C22 as stated: the scenario takes 277 to 279 months, and final_value is
\* the target to the cent.
C22_ScenarioMonths277to279 ==
    ScenarioProjected =>
        /\ Growth.months_to_target.val \in 277..279
        /\ Growth.final_value.lo >= 100 * 1000000 - 1
        /\ Growth.final_value.hi <= 100 * 1000000 + 1

\* C22: the scenario takes 313 months; final_value is the value of the
\* annuity after 313 months, above the target by between 1000 and 2000
\* (less than the growth of one more month), not the target itself.
C22_ScenarioMonths313 ==
    ScenarioProjected =>
        /\ Growth.months_to_target = Num(313)
        /\ Growth.years = Num(26) /\ Growth.remaining_months = Num(1)
        /\ Growth.final_value.lo >= 100 * (1000000 + 1000)
        /\ Growth.final_value.hi <= 100 * (1000000 + 2000)

\* C22 witness: the scenario was projected with the return given explicitly.
C22_Witness ==
    /\ ScenarioProjected /\ request.annual_return_pct = Num(8)
    /\ Growth.months_to_target = Num(313)

-----------------------------------------------------------------------------
(* computeExpenseScore of useExpenses.ts: the client calls the function     *)
(* compute-expense, once more after a refused or a transient failure.       *)
(* Both versions of the function are in the repository; either may be the   *)
(* one deployed.  A partial expense is a row with Null for every column it  *)
(* does not give.                                                           *)

Unnamed == Str(<<"U", "n", "n", "a", "m", "e", "d">>)

\* a || b for a string or a number
OrElse(a, b) ==
    IF a = Null THEN b
    ELSE IF a.type = "string" THEN (IF a.val = <<>> THEN b ELSE a)
    ELSE IF a.val = 0 THEN b ELSE a

\* a ?? b, as a JSON value
OrDefault(a, b) == IF a = Null THEN b ELSE a

\* body of the invocation
ScoreBody(expense) ==
    [name |-> OrElse(expense.name, Unnamed),
     amount |-> OrElse(expense.amount, Num(0)),
     contract_months_remaining |-> OrDefault(expense.contract_months_remaining, Num(0)),
     notice_days |-> OrDefault(expense.notice_days, Num(0)),
     cancellation_fee_pct |-> OrDefault(expense.cancellation_fee_pct, Num(0)),
     has_legal_link |-> OrDefault(expense.has_legal_link, Bool(FALSE)),
     essential_obligation |-> OrDefault(expense.essential_obligation, Bool(FALSE)),
     substitutability |-> OrDefault(expense.substitutability, Num(5)),
     override_rigidity |-> expense.override_rigidity,
     override_reason |-> expense.override_reason]

DefaultError == "Erro ao calcular despesa"
NonOkMessage == "Edge Function returned a non-2xx status code"

\* Messages of the errors an invocation is sampled with
ErrorMessages ==
    {Null, Str(""), Str("Invalid JWT"), Str("Unauthorized"), Str("Failed to fetch"),
     Str("Failed to send a request to the Edge Function"), Str(NonOkMessage)}

\* Statuses of the errors an invocation is sampled with: none, or an HTTP status
ErrorStatuses == {Null, Num(401), Num(403), Num(500)}

\* { data, error } of supabase.functions.invoke
InvokeResult(data, error) == [data |-> data, error |-> error]
InvokeError(status, message) == [status |-> status, message |-> message]

\* What the deployed function makes of the body: its JSON for status 200,
\* an error for any other status.
FunctionResults(body) ==
    LET req == [method |-> "POST", json |-> Obj(body)]
    IN  { IF resp.status = 200
          THEN InvokeResult(resp.body, Null)
          ELSE InvokeResult(Null, InvokeError(Num(resp.status), Str(NonOkMessage))) :
            resp \in {ServeComputeExpense(req), ServeComputeExpenseSimple(req)} }

\* What one invocation can give: an answer of the function, or a failure
\* on the way to it.
InvokeResults(body) ==
    FunctionResults(body)
    \cup { InvokeResult(Null, InvokeError(s, m)) : s \in ErrorStatuses, m \in ErrorMessages }

\* (error as any)?.message ?? ''
ErrorMessage(error) == IF error.message = Null THEN "" ELSE error.message.val

\* /jwt|unauthor/i.test(msg), on the sampled messages
MatchesJwtOrUnauthor(msg) == msg \in {"Invalid JWT", "Unauthorized"}

\* /failed to fetch|failed to send/i.test(msg), on the sampled messages
MatchesFailedToFetchOrSend(msg) ==
    msg \in {"Failed to fetch", "Failed to send a request to the Edge Function"}

isUnauthorized(error) ==
    \/ error.status = Num(401)
    \/ error.status = Num(403)
    \/ MatchesJwtOrUnauthor(ErrorMessage(error))

\* Mutant: every error counts as transient.
isTransient_AnyError(error) == TRUE

isTransient(error) == MatchesFailedToFetchOrSend(ErrorMessage(error))

\* { success: false, error: msg || 'Erro ao calcular despesa' }
ScoreFailure(msg) == [success |-> FALSE, error |-> IF msg = "" THEN DefaultError ELSE msg]

\* attempt < 2
MaxAttempts == 2

\* continue: the next turn of the loop, or the return after it
Continue(call) ==
    IF call.attempt + 1 < MaxAttempts
    THEN [call EXCEPT !.pc = "invoke", !.attempt = @ + 1]
    ELSE [call EXCEPT !.pc = "returned", !.attempt = @ + 1,
                      !.result = ScoreFailure("")]

\* computeExpenseScore(expense) up to its first await
StartCall(expense) ==
    [pc |-> "invoke", body |-> ScoreBody(expense), attempt |-> 0,
     invoked |-> <<>>, refreshed |-> 0, result |-> Null]

\* The turn of the loop after invokeOnce has settled with r
AfterInvoke(call, r) ==
    LET c == [call EXCEPT !.invoked = Append(@, r)]
    IN  IF r.error = Null THEN [c EXCEPT !.pc = "returned", !.result = r.data]
        ELSE IF isUnauthorized(r.error) /\ call.attempt = 0 THEN [c EXCEPT !.pc = "refresh"]
        ELSE IF isTransient(r.error) /\ call.attempt = 0 THEN [c EXCEPT !.pc = "wait"]
        ELSE [c EXCEPT !.pc = "returned", !.result = ScoreFailure(ErrorMessage(r.error))]

\* The partial expenses computeExpenseScore is called with
ExpenseInputs ==
    { ScenarioPayload,
      [ScenarioPayload EXCEPT !.name = Null, !.amount = Num(50),
            !.contract_months_remaining = Null, !.notice_days = Null,
            !.cancellation_fee_pct = Null, !.has_legal_link = Null,
            !.essential_obligation = Null, !.substitutability = Null],
      [ScenarioPayload EXCEPT !.amount = Num(-1)] }

InitScoreCall ==
    /\ request = NoRequest
    /\ response = Pending
    /\ responseSimple = Pending
    /\ env = OkEnv
    /\ profile = Null
    /\ expenses = <<>>
    /\ summary = Pending
    /\ simulation = Pending
    /\ ClientIdle

ServerVars == <<request, response, responseSimple, env, profile, expenses, summary, simulation>>

\* A caller calls computeExpenseScore.
CallComputeExpenseScore ==
    /\ scoreCall.pc \in {"idle", "returned"}
    /\ \E expense \in ExpenseInputs : scoreCall' = StartCall(expense)
    /\ UNCHANGED <<ServerVars, projection, previewHook>>

\* await invokeOnce() settles.
InvokeSettles ==
    /\ scoreCall.pc = "invoke"
    /\ \E r \in InvokeResults(scoreCall.body) : scoreCall' = AfterInvoke(scoreCall, r)
    /\ UNCHANGED <<ServerVars, projection, previewHook>>

\* await supabase.auth.refreshSession() settles, fulfilled or rejected.
RefreshSettles ==
    /\ scoreCall.pc = "refresh"
    /\ scoreCall' = Continue([scoreCall EXCEPT !.refreshed = @ + 1])
    /\ UNCHANGED <<ServerVars, projection, previewHook>>

\* The 500 ms of the pause have passed.
WaitElapses ==
    /\ scoreCall.pc = "wait"
    /\ scoreCall' = Continue(scoreCall)
    /\ UNCHANGED <<ServerVars, projection, previewHook>>

NextScoreCall ==
    CallComputeExpenseScore \/ InvokeSettles \/ RefreshSettles \/ WaitElapses

\* Every await settles: a request ends with an answer or an error, the
\* refresh likewise, and the timer fires.
SpecScoreCall ==
    /\ InitScoreCall
    /\ [][NextScoreCall]_vars
    /\ WF_vars(InvokeSettles)
    /\ WF_vars(RefreshSettles)
    /\ WF_vars(WaitElapses)

-----------------------------------------------------------------------------
(* Properties of computeExpenseScore *)

Calling == scoreCall.pc \in {"invoke", "refresh", "wait"}
Returned == scoreCall.pc = "returned"

CallError(i) == scoreCall.invoked[i].error
CallMessage(i) == IF CallError(i).message = Null THEN "" ELSE CallError(i).message.val

Refused(i) ==
    \/ CallError(i).status \in {Num(401), Num(403)}
    \/ CallMessage(i) \in {"Invalid JWT", "Unauthorized"}

FetchFailed(i) ==
    CallMessage(i) \in {"Failed to fetch", "Failed to send a request to the Edge Function"}

FailureOf(i) ==
    [success |-> FALSE,
     error |-> IF CallMessage(i) = "" THEN "Erro ao calcular despesa" ELSE CallMessage(i)]

C30_Safe ==
    scoreCall.pc # "idle" =>
        LET n == Len(scoreCall.invoked) IN
        /\ n <= 2
        /\ scoreCall.refreshed <= 1
        /\ n = 2 =>
              /\ CallError(1) # Null
              /\ \/ Refused(1) /\ scoreCall.refreshed = 1
                 \/ ~Refused(1) /\ FetchFailed(1) /\ scoreCall.refreshed = 0
        /\ Returned =>
              /\ n >= 1
              /\ IF CallError(n) = Null
                 THEN scoreCall.result = scoreCall.invoked[n].data
                 ELSE scoreCall.result = FailureOf(n)
              /\ (n = 1 /\ CallError(1) # Null) => (~Refused(1) /\ ~FetchFailed(1))

\* C30: a call of computeExpenseScore invokes the function at most twice
\* and always returns.  The first invocation without error returns its data;
\* there is a second invocation only after a first one refused as
\* unauthorized (and one session refresh) or failed as a transient fetch
\* error; any other error, and any error of the second invocation, returns
\* {success: false, error}.
C30_AtMostTwoInvocations == []C30_Safe /\ (Calling ~> Returned)

\* C30 witness: a first invocation refused with status 401, one refresh, a
\* second invocation that failed too, and the failure returned.
C30_Witness ==
    /\ Returned /\ Len(scoreCall.invoked) = 2 /\ scoreCall.refreshed = 1
    /\ CallError(1).status = Num(401) /\ CallError(2) # Null
    /\ scoreCall.result.success = FALSE

-----------------------------------------------------------------------------
(* addExpense and updateExpense of useExpenses.ts: the rows of table        *)
(* expenses as the client writes them.                                      *)

\* Most rows stored in this specification.
MaxStored == 2

\* What computeExpenseScore returns to a mutation: the answer of an
\* invocation that succeeded, or a failure.
ScoreReturns(expense) ==
    { r.data : r \in { f \in FunctionResults(ScoreBody(expense)) : f.error = Null } }
    \cup {ScoreFailure("")}

\* !computeResult.success || !computeResult.data
ScoreThrows(computeResult) ==
    ~computeResult.success \/ computeResult.data = Null

ScoringColumns ==
    {"contract_months_remaining", "notice_days", "cancellation_fee_pct", "has_legal_link",
     "essential_obligation", "substitutability", "override_rigidity", "override_reason"}

GivenColumns == {"name", "amount"} \cup ScoringColumns

\* DEFAULT of the columns of table expenses that have one
ColumnDefault(column) ==
    CASE column = "amount" -> Num(0)
      [] column = "contract_months_remaining" -> Num(0)
      [] column = "notice_days" -> Num(0)
      [] column = "cancellation_fee_pct" -> Num(0)
      [] column = "has_legal_link" -> Bool(FALSE)
      [] column = "essential_obligation" -> Bool(FALSE)
      [] column = "substitutability" -> Num(5)
      [] OTHER -> Null

\* The three columns both mutations write from the answer of the function
Computed(data) ==
    [cancelability_score |-> Num(data.cancelability_score),
     computed_rigidity |-> Str(data.rigidity_effective),
     warnings |-> data.warnings]

\* insert({...expense, user_id, cancelability_score, computed_rigidity, warnings})
InsertedRow(id, expense, data) ==
    [column \in GivenColumns |->
        IF expense[column] = Null THEN ColumnDefault(column) ELSE expense[column]]
    @@ [id |-> id, intention |-> "ESSENCIAL"] @@ Computed(data)

\* update({...updates, cancelability_score, computed_rigidity, warnings}):
\* the columns the update gives and the three computed ones are written.
UpdatedRow(row, updates, data) ==
    [column \in GivenColumns |->
        IF updates[column] = Null THEN row[column] ELSE updates[column]]
    @@ [id |-> row.id, intention |-> row.intention] @@ Computed(data)

\* A phone plan with a notice period, free of contract and of legal link
PhonePlan ==
    [ScenarioPayload EXCEPT !.contract_months_remaining = Num(0), !.notice_days = Num(30),
                            !.cancellation_fee_pct = Num(2), !.has_legal_link = Bool(FALSE)]

\* The expenses the form adds
NewExpenses ==
    { ScenarioPayload, PhonePlan,
      [ScenarioPayload EXCEPT !.override_rigidity = Str("FLEXIVEL"),
                              !.override_reason = Str(Letters(8))] }

NoUpdate == [column \in GivenColumns |-> Null]

\* The updates of a stored expense: of its amount, of its name, of one
\* scoring attribute, of all of them
ExpenseUpdates ==
    { [NoUpdate EXCEPT !.amount = Num(50)],
      [NoUpdate EXCEPT !.name = Str(<<"b">>)],
      [NoUpdate EXCEPT !.has_legal_link = Bool(TRUE)],
      PhonePlan }

InitStore ==
    /\ request = NoRequest
    /\ response = Pending
    /\ responseSimple = Pending
    /\ env = OkEnv
    /\ profile = Null
    /\ expenses = <<>>
    /\ summary = Pending
    /\ simulation = Pending
    /\ ClientIdle

StoreFrame ==
    <<request, response, responseSimple, env, profile, summary, simulation,
      projection, scoreCall, previewHook>>

\* addExpense.mutationFn: nothing is stored when the score fails or the
\* insert is refused (name is NOT NULL).
AddExpense ==
    /\ Len(expenses) < MaxStored
    /\ \E expense \in NewExpenses :
       \E computeResult \in ScoreReturns(expense) :
            expenses' =
                IF ScoreThrows(computeResult) \/ expense.name = Null THEN expenses
                ELSE Append(expenses,
                            InsertedRow(Len(expenses) + 1, expense, computeResult.data))
    /\ UNCHANGED StoreFrame

\* updateExpense.mutationFn: the score is computed from the update alone.
UpdateExpense ==
    /\ \E i \in 1..Len(expenses), updates \in ExpenseUpdates :
       \E computeResult \in ScoreReturns(updates) :
            expenses' =
                IF ScoreThrows(computeResult) THEN expenses
                ELSE [expenses EXCEPT ![i] = UpdatedRow(@, updates, computeResult.data)]
    /\ UNCHANGED StoreFrame

NextStore == AddExpense \/ UpdateExpense

SpecStore == InitStore /\ [][NextStore]_vars

-----------------------------------------------------------------------------
(* Properties of the stored expenses *)

SameScoringAttributes(old, new) == \A column \in ScoringColumns : old[column] = new[column]

\* A stored expense that is legally linked or under contract
StoredBound(e) ==
    e.has_legal_link = Bool(TRUE) \/ e.contract_months_remaining.val > 0

\* C25: an update that changes no scoring attribute of a stored expense
\* leaves its stored cancelability_score and computed_rigidity as they
\* were, and no stored expense with has_legal_link = true or
\* contract_months_remaining > 0 has computed_rigidity FLEXIVEL.
C25_UpdateKeepsClassification ==
    /\ [][\A i \in 1..Len(expenses) :
            (i <= Len(expenses') /\ SameScoringAttributes(expenses[i], expenses'[i])) =>
                /\ expenses'[i].cancelability_score = expenses[i].cancelability_score
                /\ expenses'[i].computed_rigidity = expenses[i].computed_rigidity]_vars
    /\ [](\A i \in 1..Len(expenses) : StoredBound(expenses[i]) => ~StoredFlexivel(expenses[i]))

-----------------------------------------------------------------------------
(* useComputePreview: the hook that shows the score of the expense being    *)
(* typed.  Its effect runs when a field of the input changes; the request   *)
(* leaves after a pause without changes.                                    *)

\* Most requests of the hook under way at once.
MaxInFlight == 2

NamelessInput == [ScenarioPayload EXCEPT !.name = Str(<<>>)]
FreeInput == [ScenarioPayload EXCEPT !.amount = Num(0)]

\* What the form passes to the hook: nothing, an expense without name, one
\* without amount, two complete ones
PreviewInputs == {Null, NamelessInput, FreeInput, ScenarioPayload, PhonePlan}

\* !input || !input.name || input.amount <= 0
NothingToPreview(input) ==
    \/ input = Null
    \/ input.name = Null
    \/ input.name.val = <<>>
    \/ input.amount.val <= 0

\* body of the invocation of the hook
PreviewBody(input) ==
    [name |-> input.name,
     amount |-> input.amount,
     contract_months_remaining |-> OrDefault(input.contract_months_remaining, Num(0)),
     notice_days |-> OrDefault(input.notice_days, Num(0)),
     cancellation_fee_pct |-> OrDefault(input.cancellation_fee_pct, Num(0)),
     has_legal_link |-> OrDefault(input.has_legal_link, Bool(FALSE)),
     essential_obligation |-> OrDefault(input.essential_obligation, Bool(FALSE)),
     substitutability |-> OrDefault(input.substitutability, Num(5)),
     override_rigidity |-> input.override_rigidity,
     override_reason |-> input.override_reason]

\* The invocation threw instead of giving { data, error }.
Thrown == [thrown |-> TRUE]

\* What the invocation of the hook can give: an answer of the function, a
\* failure on the way to it, no data, an exception
PreviewResults(body) ==
    FunctionResults(body)
    \cup {InvokeResult(Null, InvokeError(Null, Str("Failed to fetch"))),
          InvokeResult(Null, Null), Thrown}

\* The hook after its first render, without input: the useState values,
\* no timer, no cleanup to run, no request under way.
HookMounted ==
    [input |-> Null, preview |-> Null, isLoading |-> FALSE, error |-> Null,
     debounce |-> Null, cleanup |-> FALSE, inFlight |-> <<>>]

\* The cleanup the last effect returned, if any, then the effect for the
\* new input.  debounce is the input of the timer that is set and has
\* neither fired nor been cleared.
RunEffect(hook, input) ==
    LET cleaned == IF hook.cleanup THEN [hook EXCEPT !.debounce = Null] ELSE hook
    IN  IF NothingToPreview(input)
        THEN [cleaned EXCEPT !.input = input, !.preview = Null, !.error = Null,
                             !.cleanup = FALSE]
        ELSE [cleaned EXCEPT !.input = input, !.debounce = input, !.isLoading = TRUE,
                             !.cleanup = TRUE]

\* The try / catch / finally of the callback, once the invocation has given r
AfterPreview(hook, r) ==
    LET shown ==
            IF r = Thrown
                THEN [hook EXCEPT !.error = Str("Erro de conexao"), !.preview = Null]
            ELSE IF r.error # Null
                THEN [hook EXCEPT !.error = r.error.message, !.preview = Null]
            ELSE IF r.data # Null /\ r.data.success /\ r.data.data # Null
                THEN [hook EXCEPT !.preview = r.data.data, !.error = Null]
            ELSE [hook EXCEPT !.error = Str("Erro ao calcular preview"), !.preview = Null]
    IN  [shown EXCEPT !.isLoading = FALSE]

\* The sequence without its i-th element
Without(s, i) == [k \in 1..(Len(s) - 1) |-> IF k < i THEN s[k] ELSE s[k + 1]]

InitPreview ==
    /\ request = NoRequest
    /\ response = Pending
    /\ responseSimple = Pending
    /\ env = OkEnv
    /\ profile = Null
    /\ expenses = <<>>
    /\ summary = Pending
    /\ simulation = Pending
    /\ projection = Pending
    /\ scoreCall = IdleCall
    /\ previewHook = HookMounted

\* A field of the input changes and the effect runs.
ChangeInput ==
    /\ \E input \in PreviewInputs :
            /\ input # previewHook.input
            /\ previewHook' = RunEffect(previewHook, input)
    /\ UNCHANGED <<ServerVars, projection, scoreCall>>

\* The pause has passed: the callback starts and invokes the function.
DebounceFires ==
    /\ previewHook.debounce # Null
    /\ Len(previewHook.inFlight) < MaxInFlight
    /\ previewHook' = [previewHook EXCEPT
                            !.inFlight = Append(@, PreviewBody(previewHook.debounce)),
                            !.debounce = Null]
    /\ UNCHANGED <<ServerVars, projection, scoreCall>>

\* One of the invocations under way settles and its callback ends.
PreviewSettles ==
    /\ \E i \in 1..Len(previewHook.inFlight) :
       \E r \in PreviewResults(previewHook.inFlight[i]) :
            previewHook' = [AfterPreview(previewHook, r) EXCEPT !.inFlight = Without(@, i)]
    /\ UNCHANGED <<ServerVars, projection, scoreCall>>

NextPreview == ChangeInput \/ DebounceFires \/ PreviewSettles

\* A timer that stays set fires, and an invocation under way settles.
SpecPreview ==
    /\ InitPreview
    /\ [][NextPreview]_vars
    /\ WF_vars(DebounceFires)
    /\ WF_vars(PreviewSettles)

-----------------------------------------------------------------------------
(* Properties of useComputePreview *)

\* Neither a timer set nor an invocation under way
NoRequestPending == previewHook.debounce = Null /\ previewHook.inFlight = <<>>

\* C29: whatever the changes of the input, isLoading does not stay true
\* for ever once no timer is set and no request is under way: it is false
\* again, or something is pending again, infinitely often.
C29_LoadingEventuallyCleared == []<>(~previewHook.isLoading \/ ~NoRequestPending)

====
